---- MODULE Spec2Model ----
(***************************************************************************)
(* Model of the manifest reconciliation engine of meshery-istio            *)
(* (istio/istio.go): applyConfigChange -> applyRulePayload -> executeRule  *)
(* -> createResource / getResource / updateResource / deleteResource,      *)
(* running against a model of the Kubernetes dynamic API surface.          *)
(*                                                                         *)
(* Strings that the code takes apart (apiVersion, kind) are sequences of   *)
(* one-character strings; strings that it only compares are TLA+ strings.  *)
(* An error value is the sequence of its message parts, outermost wrap     *)
(* first; the nil error is the empty sequence.                             *)
(***************************************************************************)
EXTENDS Integers, Sequences, FiniteSets, TLC

VARIABLES
    cluster,      \* API surface: the set of live objects
    policy,       \* API surface: verbs refused / update not allowed, per call of applyConfigChange
    budget,       \* API surface: transient transport failures still to come
    manifest,     \* the change-set handed to applyConfigChange (documents between boundaries)
    namespace,    \* applyConfigChange parameter: target namespace
    delete,       \* applyConfigChange parameter
    isCustomOp,   \* applyConfigChange parameter
    yamls,        \* applyConfigChange local: result of splitYAML
    idx,          \* applyConfigChange local: position of the range loop (1-based)
    item,         \* applyRulePayload local: position of EachListItem (0 when not a list)
    data,         \* executeRule parameter: the desired object
    res,          \* executeRule local: schema.GroupVersionResource
    trackRetry,   \* executeRule local
    updErr,       \* executeRule local: err of updateResource kept across the retry delete
    data1,        \* object returned by getResource
    arg,          \* updateResource parameter
    err,          \* error returned by the callee that returned last
    pc,           \* position of the single goroutine running applyConfigChange
    stack,        \* return positions of the calls in progress
    result,       \* error returned by the last finished applyConfigChange
    opsDone,      \* number of applyConfigChange calls started
    log,          \* history: the API calls of the current applyConfigChange
    reconciled,   \* history: chunk positions handed to applyRulePayload
    snap,         \* history: the cluster when the current applyConfigChange started
    prev,         \* history: the call before the current one was a clean standard apply
    split,        \* splitYAML: the decoder and the locals of the read loop
    eventChan,    \* Client.eventChan: the buffered channel of events
    tasks,        \* the goroutines started by ApplyOperation and StreamEvents
    stream,       \* the StreamEvents call in progress and its stream
    requests,     \* history: the requests ApplyOperation has accepted
    responses,    \* history: the responses ApplyOperation has returned
    entered,      \* history: the events in the order they entered the channel
    delivered,    \* history: the events stream.Send has delivered
    session,      \* the CreateMeshInstance calls after the first, and the channels they replaced
    install       \* the installer in progress: its request, its position and its trail

vars == <<cluster, policy, budget, manifest, namespace, delete, isCustomOp,
          yamls, idx, item, data, res, trackRetry, updErr, data1, arg, err,
          pc, stack, result, opsDone, log, reconciled, snap, prev,
          split, eventChan, tasks, stream, requests, responses,
          entered, delivered, session, install>>

\* the variables of the reconciliation engine
engine == <<cluster, policy, budget, manifest, namespace, delete, isCustomOp,
            yamls, idx, item, data, res, trackRetry, updErr, data1, arg, err,
            pc, stack, result, opsDone, log, reconciled, snap, prev>>

\* the variables of the event notifier
events == <<eventChan, tasks, stream, requests, responses,
            entered, delivered, session>>

(***************************************************************************)
(* Bounds                                                                  *)
(***************************************************************************)
MaxOps == 2
MaxTransient == 0

(***************************************************************************)
(* Strings                                                                 *)
(***************************************************************************)
Upper == <<"A","B","C","D","E","F","G","H","I","J","K","L","M",
           "N","O","P","Q","R","S","T","U","V","W","X","Y","Z">>
Lower == <<"a","b","c","d","e","f","g","h","i","j","k","l","m",
           "n","o","p","q","r","s","t","u","v","w","x","y","z">>

LowerOf(c) ==
    IF \E i \in 1..26 : Upper[i] = c
    THEN Lower[CHOOSE i \in 1..26 : Upper[i] = c]
    ELSE c

ToLower(s) == [i \in 1..Len(s) |-> LowerOf(s[i])]

\* strings.Split(s, sep) for a one-character separator
RECURSIVE Split(_, _)
Split(s, sep) ==
    IF \A i \in 1..Len(s) : s[i] # sep
    THEN <<s>>
    ELSE LET p == CHOOSE i \in 1..Len(s) :
                      s[i] = sep /\ \A j \in 1..(i - 1) : s[j] # sep
         IN  <<SubSeq(s, 1, p - 1)>> \o Split(SubSeq(s, p + 1, Len(s)), sep)

EmptyStr == <<>>

(***************************************************************************)
(* Errors                                                                  *)
(***************************************************************************)
Nil == <<>>
AlreadyExistsMsg == "already exists"
NotFoundMsg == "not found"
MethodNotAllowedMsg == "the server does not allow this method on the requested resource"
ForbiddenMsg == "forbidden"
ConflictMsg == "the object has been modified"
TransportMsg == "connection refused"
PayloadMsg == "error while applying rule payload yaml"

\* errors.Wrap / errors.Wrapf of github.com/pkg/errors: nil stays nil
Wrap(e, msg) == IF e = Nil THEN Nil ELSE <<msg>> \o e

\* kubeerror.IsAlreadyExists, applied to the error the API call returned
IsAlreadyExists(e) == e # Nil /\ e[Len(e)] = AlreadyExistsMsg

\* strings.Contains(err.Error(), msg)
Contains(e, msg) == \E i \in 1..Len(e) : e[i] = msg

(***************************************************************************)
(* Documents                                                               *)
(***************************************************************************)
\* unstructured.Unstructured, reduced to the fields the engine reads or writes
Unstructured(av, k, n, ns, rep) ==
    [apiVersion |-> av, kind |-> k, name |-> n, namespace |-> ns,
     replicas |-> rep, creationTimestamp |-> "", generateName |-> "",
     generation |-> 0, selfLink |-> "", resourceVersion |-> 0, labels |-> ""]

NoObject == Unstructured(EmptyStr, EmptyStr, "", "", 0)

V1 == <<"v","1">>
AppsV1 == <<"a","p","p","s","/","v","1">>
KindNamespace == <<"N","a","m","e","s","p","a","c","e">>
KindDeployment == <<"D","e","p","l","o","y","m","e","n","t">>
KindConfigMap == <<"C","o","n","f","i","g","M","a","p">>
KindGateway == <<"G","a","t","e","w","a","y">>
NetworkingV1alpha3 == <<"n","e","t","w","o","r","k","i","n","g",".","i","s","t","i","o",".","i","o","/","v","1","a","l","p","h","a","3">>
KindCRD == <<"C","u","s","t","o","m","R","e","s","o","u","r","c","e","D","e","f","i","n","i","t","i","o","n">>
ApiExtensionsV1beta1 == <<"a","p","i","e","x","t","e","n","s","i","o","n","s",".","k","8","s",".","i","o","/","v","1","b","e","t","a","1">>

NsDefaultDoc == Unstructured(V1, KindNamespace, "default", "", 0)
DeploymentDoc == Unstructured(AppsV1, KindDeployment, "web", "", 2)
ConfigMapDoc == Unstructured(V1, KindConfigMap, "cfg", "own", 0)

\* One document of a manifest: its text class and the objects it parses to.
Blank == [text |-> "blank", docs |-> <<>>]
Null == [text |-> "null", docs |-> <<>>]
Malformed == [text |-> "malformed", docs |-> <<>>]
Obj(d) == [text |-> "object", docs |-> <<d>>]
List(ds) == [text |-> "list", docs |-> ds]

Manifests ==
    { <<Obj(ConfigMapDoc)>>,
      <<Obj(NsDefaultDoc)>>,
      <<Obj(ConfigMapDoc), Obj(DeploymentDoc)>>,
      <<Blank, Obj(DeploymentDoc), Null, Obj(ConfigMapDoc)>>,
      <<List(<<ConfigMapDoc, DeploymentDoc>>)>>,
      <<Null, Obj(ConfigMapDoc)>>,
      <<Obj(ConfigMapDoc), Malformed, Obj(DeploymentDoc)>> }

TargetNamespaces == {"", "prod"}

(***************************************************************************)
(* The API surface (k8sDynamicClient)                                      *)
(***************************************************************************)
ResNamespaces == <<"n","a","m","e","s","p","a","c","e","s">>
ResDeployments == <<"d","e","p","l","o","y","m","e","n","t","s">>
ResCRDs == <<"c","u","s","t","o","m","r","e","s","o","u","r","c","e","d","e","f","i","n","i","t","i","o","n","s">>

Verbs == {"create", "get", "update", "delete"}

\* What the server refuses during one applyConfigChange.
Policies ==
    { [denied |-> d, mna |-> FALSE] : d \in { {}, {"create"}, {"get"}, {"update"}, {"delete"} } }
    \cup
    { [denied |-> d, mna |-> TRUE] : d \in { {}, {"create"}, {"create", "delete"} } }

NoPolicy == [denied |-> {}, mna |-> FALSE]

\* A resource type is namespaced or cluster-scoped; a call addresses it only
\* with the matching kind of path.
Namespaced(r) == r.Resource \notin {ResNamespaces, ResCRDs}
Addressable(r, nsq) == Namespaced(r) = (nsq # "")

Live(c, r, nsq, name) ==
    { o \in c : o.res = r /\ o.obj.namespace = nsq /\ o.obj.name = name }

Stored(r, nsq, d) ==
    [res |-> r,
     obj |-> [d EXCEPT !.namespace = nsq, !.creationTimestamp = "t0",
                       !.generation = 1, !.selfLink = "/self",
                       !.resourceVersion = 1]]

\* One call of the dynamic client.  d is the object sent (create, update) or
\* the object whose name is used (get, delete); transient is the choice of
\* the environment to fail this call on the transport.  An update that
\* carries no resourceVersion is unconditional.
ApiCall(verb, c, pol, r, nsq, d, transient) ==
    LET live == Live(c, r, nsq, d.name)
        fail(msg) == [err |-> <<msg>>, obj |-> NoObject, cluster |-> c]
    IN  IF transient THEN fail(TransportMsg)
        ELSE IF verb \in pol.denied THEN fail(ForbiddenMsg)
        ELSE IF verb = "update" /\ pol.mna THEN fail(MethodNotAllowedMsg)
        ELSE IF ~Addressable(r, nsq) THEN fail(NotFoundMsg)
        ELSE IF verb = "create" THEN
            IF live # {} THEN fail(AlreadyExistsMsg)
            ELSE [err |-> Nil, obj |-> Stored(r, nsq, d).obj,
                  cluster |-> c \cup {Stored(r, nsq, d)}]
        ELSE IF live = {} THEN fail(NotFoundMsg)
        ELSE LET o == CHOOSE x \in live : TRUE IN
            IF verb = "get" THEN [err |-> Nil, obj |-> o.obj, cluster |-> c]
            ELSE IF verb = "delete" THEN
                [err |-> Nil, obj |-> NoObject, cluster |-> c \ live]
            ELSE IF d.resourceVersion # 0 /\ d.resourceVersion # o.obj.resourceVersion
                THEN fail(ConflictMsg)
            ELSE LET n == [res |-> r,
                           obj |-> [d EXCEPT !.namespace = nsq,
                                             !.generation = o.obj.generation + 1,
                                             !.resourceVersion = o.obj.resourceVersion + 1]]
                 IN  [err |-> Nil, obj |-> n.obj, cluster |-> (c \ live) \cup {n}]

Transients == IF budget > 0 THEN BOOLEAN ELSE {FALSE}


(***************************************************************************)
(* Pure helpers of the engine                                              *)
(***************************************************************************)
\* splitYAML: one entry per decoded document; the read that meets the end of
\* the stream has already appended one more, empty, entry.
splitYAML(yamlContents) == yamlContents \o <<Blank>>

\* strings.TrimSpace(yml) != ""
NonBlank(yml) == yml.text # "blank"

\* executeRule: namespace stamping
StampNamespace(d, ns) == IF ns # "" THEN [d EXCEPT !.namespace = ns] ELSE d

\* variant: every kind is pluralised by appending "s"
PluralizeNoExceptions(kind) == ToLower(kind) \o <<"s">>

\* executeRule: the switch on the lower-cased kind
Pluralize(kind) ==
    LET k == ToLower(kind) IN
    IF k = <<"l","o","g","e","n","t","r","y">>
        THEN <<"l","o","g","e","n","t","r","i","e","s">>
    ELSE IF k = <<"k","u","b","e","r","n","e","t","e","s">>
        THEN <<"k","u","b","e","r","n","e","t","e","s">>
    ELSE IF k = <<"p","o","d","s","e","c","u","r","i","t","y","p","o","l","i","c","y">>
        THEN <<"p","o","d","s","e","c","u","r","i","t","y","p","o","l","i","c","i","e","s">>
    ELSE IF k = <<"s","e","r","v","i","c","e","e","n","t","r","y">>
        THEN <<"s","e","r","v","i","c","e","e","n","t","r","i","e","s">>
    ELSE k \o <<"s">>

\* executeRule: schema.GroupVersionResource of a document
GroupVersionResource(d) ==
    LET groupVersion == Split(d.apiVersion, "/") IN
    [Group    |-> IF Len(groupVersion) = 2 THEN groupVersion[1] ELSE EmptyStr,
     Version  |-> IF Len(groupVersion) = 2 THEN groupVersion[2]
                  ELSE IF Len(groupVersion) = 1 THEN groupVersion[1]
                  ELSE EmptyStr,
     Resource |-> Pluralize(d.kind)]

NoRes == [Group |-> EmptyStr, Version |-> EmptyStr, Resource |-> EmptyStr]

\* executeRule: the server-assigned fields copied from the live object
CopyIdentity(d, live) ==
    [d EXCEPT !.creationTimestamp = live.creationTimestamp,
              !.generateName = live.generateName,
              !.generation = live.generation,
              !.selfLink = live.selfLink,
              !.resourceVersion = live.resourceVersion]

\* executeRule: trackRetry <= 3
MaxRetry == 3
\* variant: the retry counter is not looked at
RetryAllowedAlways(n) == TRUE

RetryAllowed(n) == n <= MaxRetry

\* variant: the guard looks at the namespace field instead of the name
IsDefaultNamespaceByField(r, d) == r.Resource = ResNamespaces /\ d.namespace = "default"

\* deleteResource: the default namespace is never deleted
IsDefaultNamespace(r, d) == r.Resource = ResNamespaces /\ d.name = "default"

\* variant: the comparison uses the singular, which no resource has
ScaleDownFirstSingular(r) == r.Resource = <<"d","e","p","l","o","y","m","e","n","t">>

\* deleteResource: deployments are scaled down to 0 first
ScaleDownFirst(r) == r.Resource = ResDeployments

\* deleteResource: spec1["replicas"] = 0
ScaledDown(d) == [d EXCEPT !.replicas = 0]

(***************************************************************************)
(* Control                                                                 *)
(***************************************************************************)
InDelete ==
    \/ pc \in {"dr", "dr_got", "dr_scaled", "dr_ns", "dr_cluster"}
    \/ \E i \in 1..Len(stack) : stack[i] \in {"dr_got", "dr_scaled"}

Entry(verb, attempt, nsq, d, sent, e) ==
    [doc |-> idx, item |-> item, verb |-> verb, attempt |-> attempt,
     nsq |-> nsq, res |-> res, name |-> d.name, sent |-> sent, err |-> e,
     inDelete |-> InDelete, retry |-> trackRetry]

Return(e) ==
    /\ pc' = Head(stack)
    /\ stack' = Tail(stack)
    /\ err' = e

Invoke(callee, returnTo) ==
    /\ pc' = callee
    /\ stack' = <<returnTo>> \o stack

request == <<manifest, namespace, delete, isCustomOp, yamls, policy, opsDone, snap, prev>>

\* no API call of the log failed, except with already-exists
Clean(l) == \A i \in 1..Len(l) : l[i].err = Nil \/ IsAlreadyExists(l[i].err)

\* the call that has just returned was a standard apply that succeeded and
\* in which no API call failed except with already-exists
CleanStandardApply == ~delete /\ ~isCustomOp /\ result = Nil /\ Clean(log)


(***************************************************************************)
(* State outside the engine                                                *)
(***************************************************************************)
\* splitYAML is not running
NoSplit == [pc |-> "idle"]

\* CreateMeshInstance: eventChan = make(chan *meshes.EventsResponse, 100)
EventChanCap == 100

\* no StreamEvents call has been made
NoStream == [pc |-> "none", cancelled |-> FALSE, calls |-> 0]

\* CreateMeshInstance has been called once: no channel has been replaced
NoSession == [calls |-> 0, replaced |-> <<>>, mark |-> 0, streamMark |-> 0]

\* the event notifier right after CreateMeshInstance, with no request made
EventsIdle ==
    /\ eventChan = <<>>
    /\ tasks = <<>>
    /\ stream = NoStream
    /\ requests = <<>>
    /\ responses = <<>>
    /\ entered = <<>>
    /\ delivered = <<>>
    /\ session = NoSession

\* no installer has been called
NoInstall ==
    [op |-> "none", deleteOp |-> FALSE, namespace |-> "", gateway |-> FALSE,
     at |-> "none", phase |-> "none", crd |-> 0, err |-> Nil, trail |-> <<>>]

(***************************************************************************)
(* applyConfigChange                                                       *)
(***************************************************************************)
\* the engine with no applyConfigChange made, on an empty cluster
EngineIdle ==
    /\ cluster = {}
    /\ policy = NoPolicy
    /\ budget = MaxTransient
    /\ manifest = <<>>
    /\ namespace = ""
    /\ delete = FALSE
    /\ isCustomOp = FALSE
    /\ yamls = <<>>
    /\ idx = 0
    /\ item = 0
    /\ data = NoObject
    /\ res = NoRes
    /\ trackRetry = 0
    /\ updErr = Nil
    /\ data1 = NoObject
    /\ arg = NoObject
    /\ err = Nil
    /\ pc = "idle"
    /\ stack = <<>>
    /\ result = Nil
    /\ opsDone = 0
    /\ log = <<>>
    /\ reconciled = <<>>
    /\ snap = {}
    /\ prev = FALSE

Init ==
    /\ EngineIdle
    /\ split = NoSplit
    /\ install = NoInstall
    /\ EventsIdle

\* applyConfigChange returns e to its caller
Finish(e) ==
    /\ pc' = "idle"
    /\ result' = e
    /\ UNCHANGED <<stack, err>>

\* entry of applyConfigChange, up to the range loop; pol is what the server
\* refuses while the call runs
EnterApplyConfigChange(yamlFileContents, ns, del, custom, pol) ==
    /\ manifest' = yamlFileContents
    /\ namespace' = ns
    /\ delete' = del
    /\ isCustomOp' = custom
    /\ policy' = pol
    /\ yamls' = splitYAML(yamlFileContents)
    /\ idx' = 1
    /\ item' = 0
    /\ pc' = "acc_loop"
    /\ opsDone' = opsDone + 1
    /\ log' = <<>>
    /\ reconciled' = <<>>
    /\ snap' = cluster
    /\ prev' = (opsDone > 0 /\ CleanStandardApply)
    /\ result' = Nil
    /\ err' = Nil
    /\ UNCHANGED <<cluster, budget, data, res, trackRetry, updErr, data1, arg, stack>>

\* applyConfigChange, called with a change-set of its own
ApplyConfigChange(yamlFileContents, ns, del, custom, pol) ==
    /\ pc = "idle"
    /\ opsDone < MaxOps
    /\ opsDone > 0 => (yamlFileContents = manifest /\ ns = namespace)
    /\ EnterApplyConfigChange(yamlFileContents, ns, del, custom, pol)
    /\ UNCHANGED <<split, events, install>>

\* head of "for _, yml := range yamls"
ApplyConfigChangeLoop ==
    /\ pc = "acc_loop"
    /\ IF idx > Len(yamls)
       THEN /\ Finish(Nil)
            /\ UNCHANGED <<idx, reconciled>>
       ELSE IF ~NonBlank(yamls[idx])
       THEN /\ idx' = idx + 1
            /\ UNCHANGED <<pc, stack, err, result, reconciled>>
       ELSE /\ Invoke("arp", "acc_ret")
            /\ reconciled' = Append(reconciled, idx)
            /\ UNCHANGED <<idx, err, result>>
    /\ UNCHANGED <<cluster, budget, item, data, res, trackRetry, updErr, data1, arg, log>>
    /\ UNCHANGED request
    /\ UNCHANGED <<split, events, install>>

\* variant: a failed document is logged and the loop goes on
ApplyConfigChangeRetContinue ==
    /\ pc = "acc_ret"
    /\ IF delete
       THEN /\ Finish(Wrap(err, "error while deleting rule payload yaml"))
            /\ UNCHANGED idx
       ELSE /\ idx' = idx + 1
            /\ pc' = "acc_loop"
            /\ UNCHANGED <<stack, err, result>>
    /\ UNCHANGED <<cluster, budget, item, data, res, trackRetry, updErr, data1, arg,
                   log, reconciled>>
    /\ UNCHANGED request
    /\ UNCHANGED <<split, events, install>>

\* variant: the wrap after a delete makes an error out of nil
ApplyConfigChangeRetSynthesizes ==
    /\ pc = "acc_ret"
    /\ IF err # Nil
       THEN /\ Finish(Wrap(err, PayloadMsg))
            /\ UNCHANGED idx
       ELSE IF delete
       THEN /\ Finish(<<"error while deleting rule payload yaml">> \o err)
            /\ UNCHANGED idx
       ELSE /\ idx' = idx + 1
            /\ pc' = "acc_loop"
            /\ UNCHANGED <<stack, err, result>>
    /\ UNCHANGED <<cluster, budget, item, data, res, trackRetry, updErr, data1, arg,
                   log, reconciled>>
    /\ UNCHANGED request
    /\ UNCHANGED <<split, events, install>>

\* applyRulePayload has returned err
ApplyConfigChangeRet ==
    /\ pc = "acc_ret"
    /\ IF err # Nil
       THEN /\ Finish(Wrap(err, PayloadMsg))
            /\ UNCHANGED idx
       ELSE IF delete
       THEN /\ Finish(Wrap(err, "error while deleting rule payload yaml"))
            /\ UNCHANGED idx
       ELSE /\ idx' = idx + 1
            /\ pc' = "acc_loop"
            /\ UNCHANGED <<stack, err, result>>
    /\ UNCHANGED <<cluster, budget, item, data, res, trackRetry, updErr, data1, arg,
                   log, reconciled>>
    /\ UNCHANGED request
    /\ UNCHANGED <<split, events, install>>

(***************************************************************************)
(* applyRulePayload                                                        *)
(***************************************************************************)
\* variant: a document that does not convert is skipped like a null document
ApplyRulePayloadSkipsMalformed ==
    /\ pc = "arp"
    /\ LET yml == yamls[idx] IN
       IF yml.text \in {"malformed", "null"}
       THEN /\ Return(Nil)
            /\ UNCHANGED <<item, data>>
       ELSE IF yml.text = "list"
       THEN /\ item' = 1
            /\ pc' = "arp_each"
            /\ UNCHANGED <<stack, err, data>>
       ELSE /\ data' = yml.docs[1]
            /\ pc' = "er"
            /\ UNCHANGED <<stack, err, item>>
    /\ UNCHANGED <<cluster, budget, idx, res, trackRetry, updErr, data1, arg,
                   result, log, reconciled>>
    /\ UNCHANGED request
    /\ UNCHANGED <<split, events, install>>

\* the YAML is converted to JSON and unmarshalled; a null document is
\* skipped, a List is iterated, any other document goes to executeRule
ApplyRulePayload ==
    /\ pc = "arp"
    /\ LET yml == yamls[idx] IN
       IF yml.text = "malformed"
       THEN /\ Return(<<"unable to convert yaml to json", "yaml: invalid">>)
            /\ UNCHANGED <<item, data>>
       ELSE IF yml.text = "null"
       THEN /\ Return(Nil)
            /\ UNCHANGED <<item, data>>
       ELSE IF yml.text = "list"
       THEN /\ item' = 1
            /\ pc' = "arp_each"
            /\ UNCHANGED <<stack, err, data>>
       ELSE /\ data' = yml.docs[1]
            /\ pc' = "er"
            /\ UNCHANGED <<stack, err, item>>
    /\ UNCHANGED <<cluster, budget, idx, res, trackRetry, updErr, data1, arg,
                   result, log, reconciled>>
    /\ UNCHANGED request
    /\ UNCHANGED <<split, events, install>>

\* data.EachListItem: the next item, or the end of the list
EachListItem ==
    /\ pc = "arp_each"
    /\ IF item > Len(yamls[idx].docs)
       THEN /\ Return(Nil)
            /\ item' = 0
            /\ UNCHANGED data
       ELSE /\ data' = yamls[idx].docs[item]
            /\ Invoke("er", "arp_eachRet")
            /\ UNCHANGED <<item, err>>
    /\ UNCHANGED <<cluster, budget, idx, res, trackRetry, updErr, data1, arg,
                   result, log, reconciled>>
    /\ UNCHANGED request
    /\ UNCHANGED <<split, events, install>>

\* variant: a failed item is skipped and the iteration goes on
EachListItemRetGoesOn ==
    /\ pc = "arp_eachRet"
    /\ item' = item + 1
    /\ pc' = "arp_each"
    /\ UNCHANGED <<stack, err>>
    /\ UNCHANGED <<cluster, budget, idx, data, res, trackRetry, updErr, data1, arg,
                   result, log, reconciled>>
    /\ UNCHANGED request
    /\ UNCHANGED <<split, events, install>>

\* data.EachListItem: the callback has returned err
EachListItemRet ==
    /\ pc = "arp_eachRet"
    /\ IF err # Nil
       THEN /\ Return(err)
            /\ item' = 0
       ELSE /\ item' = item + 1
            /\ pc' = "arp_each"
            /\ UNCHANGED <<stack, err>>
    /\ UNCHANGED <<cluster, budget, idx, data, res, trackRetry, updErr, data1, arg,
                   result, log, reconciled>>
    /\ UNCHANGED request
    /\ UNCHANGED <<split, events, install>>

(***************************************************************************)
(* executeRule                                                             *)
(***************************************************************************)
ExecuteRule ==
    /\ pc = "er"
    /\ data' = StampNamespace(data, namespace)
    /\ res' = GroupVersionResource(data')
    /\ trackRetry' = 0
    /\ pc' = IF delete THEN "dr" ELSE "RETRY"
    /\ UNCHANGED <<cluster, budget, idx, item, updErr, data1, arg, err, stack,
                   result, log, reconciled>>
    /\ UNCHANGED request
    /\ UNCHANGED <<split, events, install>>

\* RETRY: createResource(ctx, res, data)
Retry ==
    /\ pc = "RETRY"
    /\ Invoke("cr_ns", "er_created")
    /\ UNCHANGED <<cluster, budget, idx, item, data, res, trackRetry, updErr, data1,
                   arg, err, result, log, reconciled>>
    /\ UNCHANGED request
    /\ UNCHANGED <<split, events, install>>

ExecuteRuleCreated ==
    /\ pc = "er_created"
    /\ IF err = Nil
       THEN Return(Nil)
       ELSE IF isCustomOp
       THEN Invoke("dr", "er_customDeleted") /\ UNCHANGED err
       ELSE Invoke("gr_ns", "er_got") /\ UNCHANGED err
    /\ UNCHANGED <<cluster, budget, idx, item, data, res, trackRetry, updErr, data1,
                   arg, result, log, reconciled>>
    /\ UNCHANGED request
    /\ UNCHANGED <<split, events, install>>

\* custom operation: deleteResource has returned; sleep, then create once more
ExecuteRuleCustomDeleted ==
    /\ pc = "er_customDeleted"
    /\ IF err # Nil
       THEN Return(err)
       ELSE pc' = "cr_ns" /\ UNCHANGED <<stack, err>>
    /\ UNCHANGED <<cluster, budget, idx, item, data, res, trackRetry, updErr, data1,
                   arg, result, log, reconciled>>
    /\ UNCHANGED request
    /\ UNCHANGED <<split, events, install>>

\* standard operation: getResource has returned
ExecuteRuleGot ==
    /\ pc = "er_got"
    /\ IF err # Nil
       THEN /\ Return(err)
            /\ UNCHANGED <<data, arg>>
       ELSE /\ data' = CopyIdentity(data, data1)
            /\ arg' = data'
            /\ Invoke("ur_ns", "er_updated")
            /\ UNCHANGED err
    /\ UNCHANGED <<cluster, budget, idx, item, res, trackRetry, updErr, data1,
                   result, log, reconciled>>
    /\ UNCHANGED request
    /\ UNCHANGED <<split, events, install>>

\* standard operation: updateResource has returned
ExecuteRuleUpdated ==
    /\ pc = "er_updated"
    /\ IF err = Nil
       THEN Return(Nil) /\ UNCHANGED updErr
       ELSE IF Contains(err, MethodNotAllowedMsg)
       THEN /\ updErr' = err
            /\ Invoke("dr", "er_retryDeleted")
            /\ UNCHANGED err
       ELSE Return(err) /\ UNCHANGED updErr
    /\ UNCHANGED <<cluster, budget, idx, item, data, res, trackRetry, data1,
                   arg, result, log, reconciled>>
    /\ UNCHANGED request
    /\ UNCHANGED <<split, events, install>>

\* standard operation: the delete before a retry has returned (its error is only logged)
ExecuteRuleRetryDeleted ==
    /\ pc = "er_retryDeleted"
    /\ trackRetry' = trackRetry + 1
    /\ IF RetryAllowed(trackRetry')
       THEN pc' = "RETRY" /\ UNCHANGED <<stack, err>>
       ELSE Return(updErr)
    /\ UNCHANGED <<cluster, budget, idx, item, data, res, updErr, data1,
                   arg, result, log, reconciled>>
    /\ UNCHANGED request
    /\ UNCHANGED <<split, events, install>>


(***************************************************************************)
(* createResource                                                          *)
(***************************************************************************)
\* createResource: an error other than already-exists makes the call fail
CreateFailed(e) == e # Nil /\ ~IsAlreadyExists(e)

\* variant: a failed namespaced create is surfaced without the second call
CreateResourceNsNoFallback ==
    /\ pc = "cr_ns"
    /\ \E transient \in Transients :
        LET out == ApiCall("create", cluster, policy, res, data.namespace, data, transient) IN
        /\ cluster' = out.cluster
        /\ budget' = IF transient THEN budget - 1 ELSE budget
        /\ log' = Append(log, Entry("create", "ns", data.namespace, data, data, out.err))
        /\ IF CreateFailed(out.err)
           THEN Return(Wrap(out.err, "unable to create the requested resource, attempting to update"))
           ELSE Return(Nil)
    /\ UNCHANGED <<idx, item, data, res, trackRetry, updErr, data1, arg, result, reconciled>>
    /\ UNCHANGED request
    /\ UNCHANGED <<split, events, install>>

CreateResourceNs ==
    /\ pc = "cr_ns"
    /\ \E transient \in Transients :
        LET out == ApiCall("create", cluster, policy, res, data.namespace, data, transient) IN
        /\ cluster' = out.cluster
        /\ budget' = IF transient THEN budget - 1 ELSE budget
        /\ log' = Append(log, Entry("create", "ns", data.namespace, data, data, out.err))
        /\ IF CreateFailed(out.err)
           THEN pc' = "cr_cluster" /\ UNCHANGED <<stack, err>>
           ELSE Return(Nil)
    /\ UNCHANGED <<idx, item, data, res, trackRetry, updErr, data1, arg, result, reconciled>>
    /\ UNCHANGED request
    /\ UNCHANGED <<split, events, install>>

CreateResourceCluster ==
    /\ pc = "cr_cluster"
    /\ \E transient \in Transients :
        LET out == ApiCall("create", cluster, policy, res, "", data, transient) IN
        /\ cluster' = out.cluster
        /\ budget' = IF transient THEN budget - 1 ELSE budget
        /\ log' = Append(log, Entry("create", "cluster", "", data, data, out.err))
        /\ IF CreateFailed(out.err)
           THEN Return(Wrap(out.err, "unable to create the requested resource, attempting to update"))
           ELSE Return(Nil)
    /\ UNCHANGED <<idx, item, data, res, trackRetry, updErr, data1, arg, result, reconciled>>
    /\ UNCHANGED request
    /\ UNCHANGED <<split, events, install>>

(***************************************************************************)
(* getResource                                                             *)
(***************************************************************************)
GetResourceNs ==
    /\ pc = "gr_ns"
    /\ \E transient \in Transients :
        LET out == ApiCall("get", cluster, policy, res, data.namespace, data, transient) IN
        /\ budget' = IF transient THEN budget - 1 ELSE budget
        /\ log' = Append(log, Entry("get", "ns", data.namespace, data, NoObject, out.err))
        /\ IF out.err # Nil
           THEN pc' = "gr_cluster" /\ UNCHANGED <<stack, err, data1>>
           ELSE Return(Nil) /\ data1' = out.obj
    /\ UNCHANGED <<cluster, idx, item, data, res, trackRetry, updErr, arg, result, reconciled>>
    /\ UNCHANGED request
    /\ UNCHANGED <<split, events, install>>

GetResourceCluster ==
    /\ pc = "gr_cluster"
    /\ \E transient \in Transients :
        LET out == ApiCall("get", cluster, policy, res, "", data, transient) IN
        /\ budget' = IF transient THEN budget - 1 ELSE budget
        /\ log' = Append(log, Entry("get", "cluster", "", data, NoObject, out.err))
        /\ data1' = out.obj
        /\ IF out.err # Nil
           THEN Return(Wrap(out.err, "unable to retrieve the resource with a matching name, while attempting to apply the config"))
           ELSE Return(Nil)
    /\ UNCHANGED <<cluster, idx, item, data, res, trackRetry, updErr, arg, result, reconciled>>
    /\ UNCHANGED request
    /\ UNCHANGED <<split, events, install>>

(***************************************************************************)
(* updateResource                                                          *)
(***************************************************************************)
UpdateResourceNs ==
    /\ pc = "ur_ns"
    /\ \E transient \in Transients :
        LET out == ApiCall("update", cluster, policy, res, arg.namespace, arg, transient) IN
        /\ cluster' = out.cluster
        /\ budget' = IF transient THEN budget - 1 ELSE budget
        /\ log' = Append(log, Entry("update", "ns", arg.namespace, arg, arg, out.err))
        /\ IF out.err = Nil
           THEN Return(Nil)
           ELSE IF Contains(out.err, MethodNotAllowedMsg)
           THEN Return(out.err)
           ELSE pc' = "ur_cluster" /\ UNCHANGED <<stack, err>>
    /\ UNCHANGED <<idx, item, data, res, trackRetry, updErr, data1, arg, result, reconciled>>
    /\ UNCHANGED request
    /\ UNCHANGED <<split, events, install>>

UpdateResourceCluster ==
    /\ pc = "ur_cluster"
    /\ \E transient \in Transients :
        LET out == ApiCall("update", cluster, policy, res, "", arg, transient) IN
        /\ cluster' = out.cluster
        /\ budget' = IF transient THEN budget - 1 ELSE budget
        /\ log' = Append(log, Entry("update", "cluster", "", arg, arg, out.err))
        /\ IF out.err = Nil
           THEN Return(Nil)
           ELSE IF Contains(out.err, MethodNotAllowedMsg)
           THEN Return(out.err)
           ELSE Return(Wrap(out.err, "unable to update resource with the given name, while attempting to apply the config"))
    /\ UNCHANGED <<idx, item, data, res, trackRetry, updErr, data1, arg, result, reconciled>>
    /\ UNCHANGED request
    /\ UNCHANGED <<split, events, install>>

(***************************************************************************)
(* deleteResource                                                          *)
(***************************************************************************)
\* entry: the default-namespace guard and the choice of the deployment path
DeleteResource ==
    /\ pc = "dr"
    /\ IF IsDefaultNamespace(res, data)
       THEN Return(Nil)
       ELSE IF ScaleDownFirst(res)
       THEN Invoke("gr_ns", "dr_got") /\ UNCHANGED err
       ELSE pc' = "dr_ns" /\ UNCHANGED <<stack, err>>
    /\ UNCHANGED <<cluster, budget, idx, item, data, res, trackRetry, updErr, data1,
                   arg, result, log, reconciled>>
    /\ UNCHANGED request
    /\ UNCHANGED <<split, events, install>>

\* deployments: getResource has returned
DeleteResourceGot ==
    /\ pc = "dr_got"
    /\ IF err # Nil
       THEN /\ Return(err)
            /\ UNCHANGED <<data1, arg>>
       ELSE /\ data1' = ScaledDown(data1)
            /\ arg' = data1'
            /\ Invoke("ur_ns", "dr_scaled")
            /\ UNCHANGED err
    /\ UNCHANGED <<cluster, budget, idx, item, data, res, trackRetry, updErr,
                   result, log, reconciled>>
    /\ UNCHANGED request
    /\ UNCHANGED <<split, events, install>>

\* deployments: updateResource has returned
DeleteResourceScaled ==
    /\ pc = "dr_scaled"
    /\ IF err # Nil
       THEN Return(err)
       ELSE pc' = "dr_ns" /\ UNCHANGED <<stack, err>>
    /\ UNCHANGED <<cluster, budget, idx, item, data, res, trackRetry, updErr, data1,
                   arg, result, log, reconciled>>
    /\ UNCHANGED request
    /\ UNCHANGED <<split, events, install>>

DeleteResourceNs ==
    /\ pc = "dr_ns"
    /\ \E transient \in Transients :
        LET out == ApiCall("delete", cluster, policy, res, data.namespace, data, transient) IN
        /\ cluster' = out.cluster
        /\ budget' = IF transient THEN budget - 1 ELSE budget
        /\ log' = Append(log, Entry("delete", "ns", data.namespace, data, NoObject, out.err))
        /\ IF out.err # Nil
           THEN pc' = "dr_cluster" /\ UNCHANGED <<stack, err>>
           ELSE Return(Nil)
    /\ UNCHANGED <<idx, item, data, res, trackRetry, updErr, data1, arg, result, reconciled>>
    /\ UNCHANGED request
    /\ UNCHANGED <<split, events, install>>

DeleteResourceCluster ==
    /\ pc = "dr_cluster"
    /\ \E transient \in Transients :
        LET out == ApiCall("delete", cluster, policy, res, "", data, transient) IN
        /\ cluster' = out.cluster
        /\ budget' = IF transient THEN budget - 1 ELSE budget
        /\ log' = Append(log, Entry("delete", "cluster", "", data, NoObject, out.err))
        /\ IF out.err # Nil
           THEN Return(Wrap(out.err, "unable to delete the requested resource"))
           ELSE Return(Nil)
    /\ UNCHANGED <<idx, item, data, res, trackRetry, updErr, data1, arg, result, reconciled>>
    /\ UNCHANGED request
    /\ UNCHANGED <<split, events, install>>

(***************************************************************************)
(* Specification                                                           *)
(***************************************************************************)
Next ==
    \/ \E m \in Manifests, ns \in TargetNamespaces, del \in BOOLEAN,
          custom \in BOOLEAN, pol \in Policies :
            ApplyConfigChange(m, ns, del, custom, pol)
    \/ ApplyConfigChangeLoop
    \/ ApplyConfigChangeRet
    \/ ApplyRulePayload
    \/ EachListItem
    \/ EachListItemRet
    \/ ExecuteRule
    \/ Retry
    \/ ExecuteRuleCreated
    \/ ExecuteRuleCustomDeleted
    \/ ExecuteRuleGot
    \/ ExecuteRuleUpdated
    \/ ExecuteRuleRetryDeleted
    \/ CreateResourceNs
    \/ CreateResourceCluster
    \/ GetResourceNs
    \/ GetResourceCluster
    \/ UpdateResourceNs
    \/ UpdateResourceCluster
    \/ DeleteResource
    \/ DeleteResourceGot
    \/ DeleteResourceScaled
    \/ DeleteResourceNs
    \/ DeleteResourceCluster

Spec == Init /\ [][Next]_vars


(***************************************************************************)
(* Properties                                                              *)
(***************************************************************************)
Returned == pc = "idle" /\ opsDone > 0

LogIdx == 1..Len(log)

\* the document, as written in the manifest, that a log entry belongs to
Written(e) == yamls[e.doc].docs[IF e.item = 0 THEN 1 ELSE e.item]

\* positions of the chunks that are not blank
NonBlankPositions == { i \in 1..Len(yamls) : yamls[i].text # "blank" }

Range(q) == { q[i] : i \in 1..Len(q) }
Increasing(q) == \A i, j \in 1..Len(q) : i < j => q[i] < q[j]

\* C1: with delete=false the non-blank documents are reconciled one at a time
\* in splitter order: API calls are made for the document whose reconciliation
\* is in progress only, never for a later one and never for an earlier one
\* again; the loop moves on only after a reconciliation that returned no
\* error; when a reconciliation fails the call returns an error and nothing
\* after the failed document has been touched; when none fails every
\* non-blank document has been handed to the reconciler exactly once and the
\* call returns no error.
ApplyInSplitterOrder ==
    ~delete =>
        /\ Increasing(reconciled)
        /\ Range(reconciled) \subseteq NonBlankPositions
        /\ \A i \in LogIdx : log[i].doc \in Range(reconciled) /\ log[i].doc <= idx
        /\ \A i, j \in LogIdx : i < j =>
              \/ log[i].doc < log[j].doc
              \/ log[i].doc = log[j].doc /\ log[i].item <= log[j].item
        /\ pc = "acc_loop" => err = Nil /\ Range(reconciled) = { i \in NonBlankPositions : i < idx }
        /\ (Returned /\ result # Nil) =>
              /\ Range(reconciled) = { i \in NonBlankPositions : i <= idx }
              /\ err # Nil
        /\ (Returned /\ result = Nil) =>
              /\ Range(reconciled) = NonBlankPositions
              /\ err = Nil

ApplyInSplitterOrderWitness ==
    /\ Returned
    /\ ~delete
    /\ result = Nil
    /\ Len(reconciled) >= 2
    /\ \E i, j \in LogIdx : log[i].doc < log[j].doc

\* C2: a delete pass in which nothing fails has handed every non-blank
\* document of the change-set to the reconciler when it returns.
DeleteProcessesEveryDocument ==
    (Returned /\ delete /\ result = Nil) => Range(reconciled) = NonBlankPositions

\* C3: in a standard apply, a create answered already-exists is followed by a
\* get and by an update of the same document.
AlreadyExistsLeadsToUpdate ==
    (Returned /\ ~delete /\ ~isCustomOp) =>
        \A i \in LogIdx :
            (log[i].verb = "create" /\ IsAlreadyExists(log[i].err)) =>
                \E j, k \in LogIdx :
                    /\ i < j /\ j < k
                    /\ log[j].verb = "get" /\ log[j].doc = log[i].doc /\ log[j].item = log[i].item
                    /\ log[k].verb = "update" /\ log[k].doc = log[i].doc /\ log[k].item = log[i].item

\* the identity of an object without the fields the server assigns
Content(o) == [res |-> o.res, name |-> o.obj.name, namespace |-> o.obj.namespace,
               replicas |-> o.obj.replicas]
Key(o) == [res |-> o.res, name |-> o.obj.name, namespace |-> o.obj.namespace]

\* C4: a second standard apply of the change-set (both passes failing with
\* already-exists only) leaves the same objects with the same content, no
\* duplicate, and has issued a get and an update for every document.
ApplyTwiceIsIdempotent ==
    (/\ Returned /\ opsDone = 2
     /\ ~delete /\ ~isCustomOp /\ Clean(log)
     /\ prev) =>
        /\ result = Nil
        /\ { Content(o) : o \in cluster } = { Content(o) : o \in snap }
        /\ \A o1, o2 \in cluster : Key(o1) = Key(o2) => o1 = o2
        /\ \A p \in LogIdx : log[p].verb = "create" =>
              /\ \E j \in LogIdx : log[j].verb = "get" /\ log[j].doc = log[p].doc
                                   /\ log[j].item = log[p].item
              /\ \E k \in LogIdx : log[k].verb = "update" /\ log[k].doc = log[p].doc
                                   /\ log[k].item = log[p].item

IsDefaultNs(e) == e.res.Resource = ResNamespaces /\ e.name = "default"
IsDeployment(e) == e.res.Resource = ResDeployments

\* the log entries of one document that satisfy a condition
DocsInLog == { <<log[i].doc, log[i].item>> : i \in LogIdx }
Calls(d, verb, attempt, inDel) ==
    { i \in LogIdx : /\ <<log[i].doc, log[i].item>> = d
                     /\ log[i].verb = verb
                     /\ log[i].attempt = attempt
                     /\ log[i].inDelete = inDel }

\* C5: a standard apply that gave up because every update attempt was
\* rejected as method-not-allowed has made exactly 3 deletes and, after the
\* first create step, exactly 3 repeated create steps (stated for objects
\* whose delete is neither guarded nor preceded by a scale-down).
ThreeDeleteRecreateCycles ==
    (Returned /\ ~delete /\ ~isCustomOp /\ Contains(result, MethodNotAllowedMsg)) =>
        \A d \in DocsInLog :
            (/\ Calls(d, "update", "ns", FALSE) # {}
             /\ \A i \in Calls(d, "update", "ns", FALSE) :
                    /\ Contains(log[i].err, MethodNotAllowedMsg)
                    /\ ~IsDefaultNs(log[i]) /\ ~IsDeployment(log[i])) =>
                /\ Cardinality(Calls(d, "delete", "ns", TRUE)) = 3
                /\ Cardinality(Calls(d, "create", "ns", FALSE)) = 1 + 3

\* C6: in a custom-operation apply, a create answered already-exists is
\* followed by exactly one delete and exactly one more create step of that
\* document, and by no get or update.
CustomDeletesAndRecreatesOnce ==
    (Returned /\ ~delete /\ isCustomOp) =>
        \A d \in DocsInLog :
            (\E i \in Calls(d, "create", "ns", FALSE) : IsAlreadyExists(log[i].err)) =>
                /\ Cardinality(Calls(d, "delete", "ns", TRUE)) = 1
                /\ Cardinality(Calls(d, "create", "ns", FALSE)) = 2

\* C7: no get, update or delete is ever issued by deleteResource for the
\* namespace named default, and deleteResource returns no error for it,
\* whatever the namespace field of the document and whether it was called by
\* a delete pass, by the custom path or by the retry path of an apply.
DefaultNamespaceGuard ==
    /\ \A i \in LogIdx : IsDefaultNs(log[i]) => log[i].verb # "delete" /\ ~log[i].inDelete
    /\ (/\ res.Resource = ResNamespaces /\ data.name = "default"
        /\ \/ pc \in {"er_customDeleted", "er_retryDeleted"}
           \/ delete /\ pc \in {"acc_ret", "arp_eachRet"} /\ yamls[idx].text \in {"object", "list"})
       => err = Nil
    /\ (Returned /\ delete /\ \A i \in Range(reconciled) :
            yamls[i].text = "object" /\ yamls[i].docs[1].name = "default"
            /\ yamls[i].docs[1].kind = KindNamespace)
       => result = Nil /\ log = <<>> /\ cluster = snap

DefaultNamespaceGuardWitness ==
    /\ Returned
    /\ delete
    /\ reconciled = <<1>>
    /\ data.name = "default"
    /\ data.namespace = "prod"
    /\ res.Resource = ResNamespaces
    /\ result = Nil
    /\ log = <<>>
    /\ \E o \in cluster : o.res.Resource = ResNamespaces /\ o.obj.name = "default"

\* C8: a delete call for a deployment is issued only after, within the same
\* deleteResource, a get has succeeded and then an update that writes replica
\* count 0 has succeeded; when the get or the update fails no delete call is
\* issued and the delete pass returns an error.
ScaleDownBeforeDelete ==
    /\ \A i \in LogIdx :
        (log[i].verb = "delete" /\ IsDeployment(log[i])) =>
            \E g, u \in LogIdx :
                /\ g < u /\ u < i
                /\ log[g].verb = "get" /\ log[g].inDelete /\ log[g].err = Nil
                /\ log[u].verb = "update" /\ log[u].inDelete /\ log[u].err = Nil
                /\ log[u].sent.replicas = 0
                /\ \A m \in g..i : /\ log[m].inDelete
                                   /\ log[m].doc = log[i].doc /\ log[m].item = log[i].item
                                   /\ log[m].retry = log[i].retry
                                   /\ m < u => log[m].verb \in {"get", "update"}
                                   /\ m > u => log[m].verb = "delete"
    /\ (Returned /\ delete) =>
        \A d \in DocsInLog :
            (/\ \E i \in LogIdx : <<log[i].doc, log[i].item>> = d /\ IsDeployment(log[i])
             /\ \A i \in LogIdx : <<log[i].doc, log[i].item>> = d => log[i].verb # "delete")
            => result # Nil

ScaleDownBeforeDeleteWitness ==
    \E i \in LogIdx :
        /\ log[i].verb = "delete" /\ IsDeployment(log[i]) /\ log[i].err = Nil
        /\ delete
        /\ \E o \in snap : o.res.Resource = ResDeployments /\ o.obj.replicas = 2

\* C9: a delete pass over documents whose resources are absent from the
\* cluster (here: the cluster is empty and the server refuses nothing)
\* returns no error and leaves the cluster unchanged.
DeleteOfAbsentSucceeds ==
    (Returned /\ delete /\ snap = {} /\ policy = NoPolicy /\ budget = MaxTransient) =>
        result = Nil /\ cluster = snap

\* C10: the first attempt of every operation addresses the namespace the
\* stamping rule gives: the document's own namespace when it has one,
\* otherwise the target namespace when that is not empty.
StampKeepsOwnNamespace ==
    \A i \in LogIdx :
        (log[i].attempt = "ns" /\ log[i].doc <= Len(yamls)) =>
            LET own == Written(log[i]).namespace IN
            log[i].nsq = IF own # "" THEN own ELSE namespace


(***************************************************************************)
(* Resource resolution: executeRule entered with any (apiVersion, kind)    *)
(***************************************************************************)
ResolveApiVersions ==
    { EmptyStr, V1, AppsV1,
      <<"n","e","t","w","o","r","k","i","n","g",".","i","s","t","i","o",".","i","o","/","v","1","a","l","p","h","a","3">>,
      <<"/","v","1">>,
      <<"a","/","b","/","c">> }

KindServiceEntry == <<"S","e","r","v","i","c","e","E","n","t","r","y">>

ResolveKinds ==
    { EmptyStr, KindDeployment, KindNamespace, KindConfigMap, KindServiceEntry,
      <<"S","E","R","V","I","C","E","E","N","T","R","Y">>,
      <<"P","o","d","S","e","c","u","r","i","t","y","P","o","l","i","c","y">>,
      <<"L","o","g","E","n","t","r","y">>,
      <<"K","u","b","e","r","n","e","t","e","s">>,
      <<"G","a","t","e","w","a","y">>,
      <<"P","o","l","i","c","y">> }

ResolveInputs ==
    { Unstructured(av, k, "x", "", 0) : av \in ResolveApiVersions, k \in ResolveKinds }

\* executeRule has just been entered for the only document of a manifest
InitResolve ==
    /\ \E d \in ResolveInputs, ns \in TargetNamespaces, del \in BOOLEAN :
          /\ data = d
          /\ namespace = ns
          /\ delete = del
          /\ manifest = <<Obj(d)>>
          /\ yamls = splitYAML(<<Obj(d)>>)
    /\ cluster = {}
    /\ policy = NoPolicy
    /\ budget = MaxTransient
    /\ isCustomOp = FALSE
    /\ idx = 1
    /\ item = 0
    /\ res = NoRes
    /\ trackRetry = 0
    /\ updErr = Nil
    /\ data1 = NoObject
    /\ arg = NoObject
    /\ err = Nil
    /\ pc = "er"
    /\ stack = <<"acc_ret">>
    /\ result = Nil
    /\ opsDone = 1
    /\ log = <<>>
    /\ reconciled = <<1>>
    /\ snap = {}
    /\ prev = FALSE
    /\ split = NoSplit
    /\ install = NoInstall
    /\ EventsIdle

NextResolve == ExecuteRule

SpecResolve == InitResolve /\ [][NextResolve]_vars

\* executeRule has computed res for data
Resolved == pc \in {"dr", "RETRY"}

Slashes(s) == {i \in 1..Len(s) : s[i] = "/"}
FirstSlash(s) == CHOOSE i \in Slashes(s) : \A j \in Slashes(s) : i <= j
BeforeSlash(s) == SubSeq(s, 1, FirstSlash(s) - 1)
AfterSlash(s) == SubSeq(s, FirstSlash(s) + 1, Len(s))

\* the table of irregular plurals, by lower-cased kind
ExpectedResource(kind) ==
    LET k == ToLower(kind) IN
    CASE k = <<"l","o","g","e","n","t","r","y">> ->
             <<"l","o","g","e","n","t","r","i","e","s">>
      [] k = <<"k","u","b","e","r","n","e","t","e","s">> -> k
      [] k = <<"p","o","d","s","e","c","u","r","i","t","y","p","o","l","i","c","y">> ->
             <<"p","o","d","s","e","c","u","r","i","t","y","p","o","l","i","c","i","e","s">>
      [] k = <<"s","e","r","v","i","c","e","e","n","t","r","y">> ->
             <<"s","e","r","v","i","c","e","e","n","t","r","i","e","s">>
      [] OTHER -> Append(k, "s")

\* C11 as stated: whenever the apiVersion contains a "/", the group is the
\* part before it and the version the part after it; without a "/" the group
\* is empty and the version is the whole apiVersion; the resource comes from
\* the lower-cased kind and the table of irregular plurals.
ResolutionSplitsAtSlash ==
    Resolved =>
        /\ res.Resource = ExpectedResource(data.kind)
        /\ IF Slashes(data.apiVersion) = {}
           THEN res.Group = EmptyStr /\ res.Version = data.apiVersion
           ELSE /\ res.Group = BeforeSlash(data.apiVersion)
                /\ res.Version = AfterSlash(data.apiVersion)

\* C11, amended: the resolution is a function of (apiVersion, kind) alone;
\* with exactly one "/" the group is the part before it and the version the
\* part after it, with no "/" the group is empty and the version is the whole
\* apiVersion, and with more than one "/" both group and version are empty;
\* the resource is the lower-cased kind plus "s" except for the table of
\* irregular plurals.
ResolutionIsTotalFunction ==
    Resolved =>
        /\ res.Resource = ExpectedResource(data.kind)
        /\ Cardinality(Slashes(data.apiVersion)) = 0 =>
              res.Group = EmptyStr /\ res.Version = data.apiVersion
        /\ Cardinality(Slashes(data.apiVersion)) = 1 =>
              /\ res.Group = BeforeSlash(data.apiVersion)
              /\ res.Version = AfterSlash(data.apiVersion)
        /\ Cardinality(Slashes(data.apiVersion)) > 1 =>
              res.Group = EmptyStr /\ res.Version = EmptyStr

ResolutionIsTotalFunctionWitness ==
    /\ Resolved
    /\ data.kind = KindServiceEntry
    /\ Cardinality(Slashes(data.apiVersion)) = 1
    /\ res = [Group    |-> <<"n","e","t","w","o","r","k","i","n","g",".","i","s","t","i","o",".","i","o">>,
              Version  |-> <<"v","1","a","l","p","h","a","3">>,
              Resource |-> <<"s","e","r","v","i","c","e","e","n","t","r","i","e","s">>]


(***************************************************************************)
(* List documents                                                          *)
(***************************************************************************)
IsListChunk(k) == k \in 1..Len(yamls) /\ yamls[k].text = "list"

\* applyRulePayload has returned for the List document at position idx
ListReturned == pc = "acc_ret" /\ IsListChunk(idx)

ItemsInLog(k) == {log[i].item : i \in {j \in LogIdx : log[j].doc = k}}

\* the last API call made for item j of the document at position k
LastCallOf(k, j) ==
    log[CHOOSE i \in LogIdx :
            /\ log[i].doc = k /\ log[i].item = j
            /\ \A i2 \in LogIdx : (log[i2].doc = k /\ log[i2].item = j) => i2 <= i]

\* executeRule failed for the item whose last API call is e: the call
\* failed (a create answered already-exists is no failure), or it is the
\* delete that follows the last permitted retry of a standard apply
ItemFailed(e) ==
    \/ e.err # Nil /\ ~(e.verb = "create" /\ IsAlreadyExists(e.err))
    \/ /\ ~delete /\ ~isCustomOp
       /\ e.inDelete /\ e.retry = MaxRetry

\* the error executeRule returned for the failed item whose last call is e
CarriesErrorOf(e) ==
    IF e.err # Nil /\ ~(~delete /\ ~isCustomOp /\ e.inDelete)
    THEN Contains(err, e.err[Len(e.err)])
    ELSE Contains(err, MethodNotAllowedMsg)

FailedRetryDelete(e) ==
    /\ ~delete /\ ~isCustomOp
    /\ e.inDelete /\ e.verb = "delete" /\ e.attempt = "cluster"
    /\ e.err # Nil

\* C15: no error is silently discarded; in particular the error of the
\* delete step inside the retry cycle reaches the caller: once the call has
\* returned, its result carries the message of every failed delete.
RetryDeleteErrorSurfaces ==
    Returned =>
        \A i \in LogIdx :
            FailedRetryDelete(log[i]) =>
                Contains(result, log[i].err[Len(log[i].err)])


(***************************************************************************)
(* Namespace fallback                                                      *)
(***************************************************************************)
\* the document of the manifest that log entry e was made for
DocumentOf(e) == yamls[e.doc].docs[IF e.item = 0 THEN 1 ELSE e.item]

\* log entries i and j are the same operation on the same document
SameOperation(i, j) ==
    /\ log[i].verb = log[j].verb
    /\ log[i].doc = log[j].doc /\ log[i].item = log[j].item
    /\ log[i].res = log[j].res /\ log[i].name = log[j].name
    /\ log[i].inDelete = log[j].inDelete /\ log[i].retry = log[j].retry

\* the position at which the cluster-scoped call of a verb is issued
ClusterCallPc(verb) ==
    CASE verb = "create" -> "cr_cluster"
      [] verb = "get"    -> "gr_cluster"
      [] verb = "update" -> "ur_cluster"
      [] verb = "delete" -> "dr_cluster"

\* log entry i is a namespaced call that is followed at once by the
\* cluster-scoped call of the same operation (issued, or about to be issued)
FallsBack(i) ==
    IF i < Len(log)
    THEN log[i + 1].attempt = "cluster" /\ log[i + 1].nsq = "" /\ SameOperation(i, i + 1)
    ELSE pc = ClusterCallPc(log[i].verb)

\* the positions control reaches when the operation of log entry e returns
ReturnsTo(e) ==
    CASE e.verb = "create" -> {"er_created"}
      [] e.verb = "get"    -> IF e.inDelete THEN {"dr_got"} ELSE {"er_got"}
      [] e.verb = "update" -> IF e.inDelete THEN {"dr_scaled"} ELSE {"er_updated"}
      [] e.verb = "delete" -> IF delete THEN {"acc_ret", "arp_eachRet"}
                              ELSE IF isCustomOp THEN {"er_customDeleted"}
                              ELSE {"er_retryDeleted"}

\* the namespaced calls whose failure ends the operation without a second call
NoFallbackAnswer(e) ==
    \/ e.verb = "create" /\ IsAlreadyExists(e.err)
    \/ e.verb = "update" /\ Contains(e.err, MethodNotAllowedMsg)

\* C20 as stated: every failed namespaced call of create, get, update or
\* delete is followed by the same call without namespace qualifier.
EveryFailedCallFallsBack ==
    \A i \in LogIdx :
        (log[i].attempt = "ns" /\ log[i].err # Nil) => FallsBack(i)

\* C20, amended: each of create, get, update and delete first issues the
\* call with the document's namespace; when that call fails it issues the
\* same call without namespace qualifier exactly once, except that a create
\* answered already-exists ends as a success and an update answered
\* method-not-allowed surfaces that error, both without a second call; the
\* cluster-scoped call is issued only right after a failed namespaced call
\* of the same operation, so no operation makes more than two calls per
\* attempt; and the operation has returned nil when control is back at its
\* caller after a cluster-scoped call that succeeded.
NamespaceFallback ==
    /\ \A i \in LogIdx :
          /\ log[i].attempt = "ns" =>
                /\ log[i].nsq = StampNamespace(DocumentOf(log[i]), namespace).namespace
                /\ (log[i].err # Nil /\ ~NoFallbackAnswer(log[i])) => FallsBack(i)
                /\ (log[i].err = Nil \/ NoFallbackAnswer(log[i])) => ~FallsBack(i)
          /\ log[i].attempt = "cluster" =>
                /\ i > 1
                /\ log[i - 1].attempt = "ns"
                /\ log[i - 1].err # Nil
                /\ SameOperation(i - 1, i)
                /\ log[i].nsq = ""
    /\ log # <<>> =>
          LET e == log[Len(log)] IN
          (e.attempt = "cluster" /\ e.err = Nil /\ pc \in ReturnsTo(e)) => err = Nil

\* a namespaced call failed and the cluster-scoped call that followed succeeded
NamespaceFallbackWitness ==
    \E i \in LogIdx :
        /\ i > 1
        /\ log[i].attempt = "cluster" /\ log[i].err = Nil
        /\ log[i - 1].attempt = "ns" /\ log[i - 1].err # Nil
        /\ i = Len(log)
        /\ pc \in ReturnsTo(log[i])
        /\ err = Nil


(***************************************************************************)
(* Result of a delete pass                                                 *)
(***************************************************************************)
\* no API call of the current applyConfigChange failed
NoCallFailed == \A i \in LogIdx : log[i].err = Nil

\* C21: a delete pass whose reconciler call returned no error returns no
\* error: applyConfigChange with delete=true returns nil when
\* applyRulePayload returned nil, and so it does whenever the document it
\* handed over converts and none of the API calls made for it failed.
DeleteSuccessReportsSuccess ==
    (Returned /\ delete) =>
        /\ err = Nil => result = Nil
        /\ (/\ NoCallFailed
            /\ \A k \in Range(reconciled) : yamls[k].text # "malformed") => result = Nil

\* a delete pass has removed an object and returned nil
DeleteSuccessReportsSuccessWitness ==
    /\ Returned
    /\ delete
    /\ result = Nil
    /\ cluster # snap
    /\ \E i \in LogIdx : log[i].verb = "delete" /\ log[i].err = Nil


(***************************************************************************)
(* Bounded work per document                                               *)
(***************************************************************************)
\* the API calls made for the document (chunk position, item) d
CallsOf(d) == { i \in LogIdx : <<log[i].doc, log[i].item>> = d }

\* the create steps executeRule can make for one document
CreateSteps == IF delete THEN 0 ELSE IF isCustomOp THEN 2 ELSE MaxRetry + 1

\* the deleteResource calls executeRule can make for one document
DeleteSteps == IF delete \/ isCustomOp THEN 1 ELSE MaxRetry + 1

\* the get and the update steps executeRule can make itself for one document
ConflictSteps == IF delete \/ isCustomOp THEN 0 ELSE MaxRetry + 1

\* every step is at most a namespaced and a cluster-scoped call; a
\* deleteResource is at most a get, an update and a delete step
CallBound == 2 * (CreateSteps + 2 * ConflictSteps + 3 * DeleteSteps)

\* C22: the work executeRule does for one document is bounded by a constant
\* whatever the API answers: the retry counter never passes MaxRetry + 1, a
\* standard apply makes at most MaxRetry + 1 create steps, get steps, update
\* steps and deleteResource calls for one document, a custom apply at most
\* two create steps and one deleteResource call, a delete pass one
\* deleteResource call, and the number of API calls for one document never
\* passes the bound these give.
BoundedWorkPerDocument ==
    /\ trackRetry <= MaxRetry + 1
    /\ \A d \in DocsInLog :
          /\ Cardinality(Calls(d, "create", "ns", FALSE)) <= CreateSteps
          /\ Cardinality(Calls(d, "get", "ns", FALSE)) <= ConflictSteps
          /\ Cardinality(Calls(d, "update", "ns", FALSE)) <= ConflictSteps
          /\ Cardinality(Calls(d, "delete", "ns", TRUE)) <= DeleteSteps
          /\ Cardinality(Calls(d, "get", "ns", TRUE)) <= DeleteSteps
          /\ Cardinality(Calls(d, "update", "ns", TRUE)) <= DeleteSteps
          /\ Cardinality(CallsOf(d)) <= CallBound

\* a standard apply has used up its retries for a document and returned
BoundedWorkPerDocumentWitness ==
    /\ Returned
    /\ ~delete /\ ~isCustomOp
    /\ trackRetry = MaxRetry + 1
    /\ \E d \in DocsInLog :
          /\ Cardinality(Calls(d, "create", "ns", FALSE)) = MaxRetry + 1
          /\ Cardinality(Calls(d, "delete", "ns", TRUE)) = MaxRetry + 1


(***************************************************************************)
(* The conflict branch                                                     *)
(***************************************************************************)
\* log entries i and j belong to the same document
SameDocument(i, j) == log[i].doc = log[j].doc /\ log[i].item = log[j].item

\* the last create call made for the document of entry j before entry j
LastCreateBefore(j) ==
    { i \in LogIdx : /\ i < j /\ log[i].verb = "create" /\ SameDocument(i, j)
                     /\ \A k \in LogIdx :
                            (i < k /\ k < j /\ SameDocument(k, j)) => log[k].verb # "create" }

\* C23: in an apply, a get, an update or a delete is issued for a document
\* only after a create of that document was answered already-exists, and
\* after a create step that failed for any other reason no further call is
\* made for that document.
ConflictBranchOnlyOnAlreadyExists ==
    ~delete =>
        /\ \A j \in LogIdx :
              log[j].verb # "create" =>
                  \E i \in LastCreateBefore(j) : IsAlreadyExists(log[i].err)
        /\ \A i \in LogIdx :
              (/\ log[i].verb = "create" /\ log[i].attempt = "cluster"
               /\ CreateFailed(log[i].err)) =>
                  \A j \in LogIdx : (j > i /\ SameDocument(i, j)) => FALSE


(***************************************************************************)
(* Errors that are not not-found                                           *)
(***************************************************************************)
\* kubeerror.IsNotFound, applied to the error the API call returned
IsNotFound(e) == e # Nil /\ e[Len(e)] = NotFoundMsg

\* C24: a namespaced call that failed with an error that is not not-found
\* is not followed by the cluster-scoped call of the same operation.
OnlyNotFoundFallsBack ==
    \A i \in LogIdx :
        (log[i].attempt = "ns" /\ log[i].err # Nil /\ ~IsNotFound(log[i].err)) =>
            ~FallsBack(i)


(***************************************************************************)
(* Documents that are skipped, documents that fail to convert              *)
(***************************************************************************)
\* the chunk at position k is empty, white space or a null document
Skippable(k) == yamls[k].text \in {"blank", "null"}

\* the chunk at position k describes a resource or a List of resources
DescribesResource(k) == yamls[k].text \in {"object", "list"}

\* the loop is at, or has gone past, every chunk
LoopFinished == Returned /\ idx > Len(yamls)

\* C25: no API call is made for an empty, white-space or null chunk and no
\* error is reported for it; after such a chunk the loop goes on to the next
\* one (a call that returns at a chunk returns at one that is not
\* skippable, or after the last); and until the call returns every chunk
\* before the loop position that describes a resource has been handed to the
\* reconciler.
SkipsOnlyEmptyDocuments ==
    /\ \A i \in LogIdx : ~Skippable(log[i].doc)
    /\ (pc = "acc_ret" /\ Skippable(idx)) => err = Nil
    /\ (Returned /\ ~LoopFinished) => ~Skippable(idx)
    /\ \A k \in 1..Len(yamls) :
          (DescribesResource(k) /\ (k < idx \/ (Returned /\ result = Nil))) =>
              k \in Range(reconciled)

\* applyRulePayload has been handed a chunk that does not convert
MalformedMet ==
    /\ pc # "arp"
    /\ reconciled # <<>>
    /\ reconciled[Len(reconciled)] = idx
    /\ yamls[idx].text = "malformed"

\* the object the document at chunk position k describes is live
Applied(k) ==
    LET d == StampNamespace(yamls[k].docs[1], namespace) IN
    \E o \in cluster : /\ o.res = GroupVersionResource(d)
                       /\ o.obj.name = d.name

BufLen == 1000

\* number of documents of a stream
MaxDocs == 2

ErrShortBuffer == <<"short buffer">>
EOF == <<"EOF">>

\* a document of len bytes, none of them NUL, that differ from the bytes of
\* every other document of the stream
Document(k, len) == [i \in 1..len |-> k * 10000 + i]

\* a document of white space only: a blank and a line feed
WhitespaceDoc == <<32, 10>>

DocLens == {3, 1000, 1001, 2001}

\* the streams handed to splitYAML, each as the documents between its boundaries
SplitStreams ==
    UNION { { [j \in 1..n |-> IF f[j] = 0 THEN WhitespaceDoc ELSE Document(j, f[j])] :
                f \in [1..n -> DocLens \cup {0}] } : n \in 0..MaxDocs }

Zeros(len) == [i \in 1..len |-> 0]

\* YAMLDecoder.Read(d): the next piece of the current document copied into
\* the buffer; ErrShortBuffer while the document has more bytes than the
\* buffer takes, nil with its last piece, EOF after the last document.
DecoderRead(tokens, remaining, size) ==
    IF remaining = <<>> /\ tokens = <<>>
    THEN [n |-> 0, err |-> EOF, d |-> Zeros(size), tokens |-> tokens, remaining |-> <<>>]
    ELSE LET r == IF remaining = <<>> THEN Head(tokens) ELSE remaining
             t == IF remaining = <<>> THEN Tail(tokens) ELSE tokens
         IN  IF Len(r) <= size
             THEN [n |-> Len(r), err |-> Nil, d |-> r \o Zeros(size - Len(r)),
                   tokens |-> t, remaining |-> <<>>]
             ELSE [n |-> size, err |-> ErrShortBuffer, d |-> SubSeq(r, 1, size),
                   tokens |-> t, remaining |-> SubSeq(r, size + 1, Len(r))]

\* strings.Trim(r, "\x00")
Trim(r) ==
    LET keep == {i \in 1..Len(r) : r[i] # 0} IN
    IF keep = {} THEN <<>>
    ELSE SubSeq(r, CHOOSE i \in keep : \A j \in keep : i <= j,
                   CHOOSE i \in keep : \A j \in keep : j <= i)

\* splitYAML has created the decoder on yamlContents and reached the loop
InitSplit ==
    /\ \E yamlContents \in SplitStreams :
          split = [pc |-> "loop", input |-> yamlContents, tokens |-> yamlContents,
                   remaining |-> <<>>, data |-> <<>>, ind |-> 0, n |-> 0,
                   err |-> Nil, result |-> <<>>]
    /\ EngineIdle
    /\ EventsIdle
    /\ install = NoInstall

\* one iteration of "for err == io.ErrShortBuffer || err == nil"
SplitYAMLRead ==
    /\ split.pc = "loop"
    /\ LET rd == DecoderRead(split.tokens, split.remaining, BufLen)
           grown == IF Len(split.data) = 0 \/ Len(split.data) <= split.ind
                    THEN Append(split.data, <<>>)
                    ELSE split.data
           filled == IF rd.n > 0
                     THEN [grown EXCEPT ![split.ind + 1] = @ \o rd.d]
                     ELSE grown
       IN  split' = [split EXCEPT !.tokens = rd.tokens,
                                  !.remaining = rd.remaining,
                                  !.data = filled,
                                  !.ind = IF rd.err = Nil THEN split.ind + 1 ELSE split.ind,
                                  !.n = rd.n,
                                  !.err = rd.err,
                                  !.pc = IF rd.err = ErrShortBuffer \/ rd.err = Nil
                                         THEN "loop" ELSE "result"]
    /\ UNCHANGED <<engine, events, install>>

\* after the loop: one string per row of data, NUL bytes trimmed
SplitYAMLResult ==
    /\ split.pc = "result"
    /\ split' = [split EXCEPT !.result = [i \in 1..Len(split.data) |-> Trim(split.data[i])],
                              !.pc = "done"]
    /\ UNCHANGED <<engine, events, install>>

NextSplit ==
    \/ SplitYAMLRead
    \/ SplitYAMLResult

SpecSplit == InitSplit /\ [][NextSplit]_vars

SplitDone == split.pc = "done"

IsWhitespace(doc) == \A i \in 1..Len(doc) : doc[i] \in {32, 10}

\* C12: splitYAML returns exactly the documents of the stream, in source
\* order and each as one entry, with no empty entry after the last one, and
\* returns the empty sequence for a stream of white space only.
SplitReturnsTheDocuments ==
    SplitDone =>
        IF \A j \in 1..Len(split.input) : ~IsWhitespace(split.input[j])
        THEN split.result = split.input
        ELSE (\A j \in 1..Len(split.input) : IsWhitespace(split.input[j]))
                 => split.result = <<>>


(***************************************************************************)
(* Event notifier: ApplyOperation, its goroutines and StreamEvents         *)
(***************************************************************************)
MaxRequests == 1
MaxStreams == 2

\* arReq.OperationId: the caller names every request differently
OperationId(req) == req

\* the operations of supportedOps, one of each shape of ApplyOperation
OpNames == {"configureEnvoyFilter", "installImagehub", "bookInfoSubsets", "customOpCommand"}

NoEvent == [OperationId |-> 0, EventType |-> "", Details |-> Nil, uid |-> 0]

\* meshes.EventsResponse (uid tells apart two events with equal fields: it
\* is the position in tasks of the goroutine that made the event)
EventsResponse(opId, type, details, uid) ==
    [OperationId |-> opId, EventType |-> type, Details |-> details, uid |-> uid]

\* an event of an operation finished before the first request of the model
OldEvent == EventsResponse(0, "INFO", Nil, 0)

\* the error an orchestration (installer, applyConfigChange, patch) returns
OrchestrationError == <<PayloadMsg, ForbiddenMsg>>

\* a goroutine: the request it serves, what it runs, where it is, and the
\* event it is about to send or has sent
Task(req, opId, kind, at, ev) ==
    [req |-> req, OperationId |-> opId, kind |-> kind, pc |-> at, ev |-> ev]

TaskIds == 1..Len(tasks)

\* the goroutines ApplyOperation starts for a request, its own included when
\* the operation is synchronous
TasksOf(req, opId, opName) ==
    CASE opName = "configureEnvoyFilter" -> <<Task(req, opId, "handler", "run", NoEvent)>>
      [] opName = "installImagehub" -> <<Task(req, opId, "installer", "run", NoEvent)>>
      [] opName = "bookInfoSubsets" -> <<Task(req, opId, "subsets", "run", NoEvent),
                                          Task(req, opId, "generic", "run", NoEvent)>>
      [] opName = "customOpCommand" -> <<Task(req, opId, "generic", "run", NoEvent)>>

\* ApplyOperation returns to its caller; a request that is refused is
\* answered (nil, err): it has no number and no operation id
Response(req, opId, e) == [req |-> req, OperationId |-> opId, err |-> e]

\* *meshes.ApplyRuleRequest: nil, or the fields ApplyOperation validates
NilRequest == [nil |-> TRUE, OpName |-> "", CustomBody |-> ""]
ApplyRuleRequest(opName, body) == [nil |-> FALSE, OpName |-> opName, CustomBody |-> body]

\* the requests a caller sends: nil, every operation of the model and one
\* that supportedOps does not have, with an empty body, and the custom
\* operation with a body
Requests ==
    {NilRequest}
    \cup { ApplyRuleRequest(opName, "") : opName \in OpNames \cup {"noSuchOperation"} }
    \cup { ApplyRuleRequest("customOpCommand", "yaml") }

\* variant: the body of a custom operation is not looked at
ValidateNoBodyCheck(arReq) ==
    IF arReq.nil
        THEN <<"mesh client has not been created">>
    ELSE IF arReq.OpName \notin OpNames
        THEN <<"is not a valid operation name">>
    ELSE Nil

\* ApplyOperation: the three checks before the switch
Validate(arReq) ==
    IF arReq.nil
        THEN <<"mesh client has not been created">>
    ELSE IF arReq.OpName \notin OpNames
        THEN <<"is not a valid operation name">>
    ELSE IF arReq.OpName = "customOpCommand" /\ arReq.CustomBody = ""
        THEN <<"yaml body is empty">>
    ELSE Nil

\* the answers to the requests ApplyOperation has refused
Rejections == {i \in 1..Len(responses) : responses[i].req = 0}

\* ApplyOperation: a request that fails validation is refused; an accepted
\* request of an asynchronous operation starts its goroutines and is
\* acknowledged at once
ApplyOperation(arReq) ==
    /\ Len(requests) + Cardinality(Rejections) < MaxRequests
    /\ IF Validate(arReq) # Nil
       THEN /\ responses' = Append(responses, Response(0, 0, Validate(arReq)))
            /\ UNCHANGED <<requests, tasks>>
       ELSE LET req == Len(requests) + 1
                opId == OperationId(req)
            IN
            /\ requests' = Append(requests, [OperationId |-> opId, OpName |-> arReq.OpName,
                                             CustomBody |-> arReq.CustomBody])
            /\ tasks' = tasks \o TasksOf(req, opId, arReq.OpName)
            /\ responses' = IF arReq.OpName = "configureEnvoyFilter"
                            THEN responses
                            ELSE Append(responses, Response(req, opId, Nil))
    /\ UNCHANGED <<eventChan, stream, entered, delivered>>
    /\ UNCHANGED <<engine, split, session, install>>

\* the outcomes of the orchestration a goroutine runs
Outcomes(kind) ==
    CASE kind = "handler" -> {"ok", "failed"}
      [] kind = "installer" -> {"ok", "failed"}
      [] kind = "subsets" -> {"ok", "failed", "noManifest"}
      [] kind = "generic" -> {"ok", "failed"}
      [] OTHER -> {}

\* the event a goroutine pushes after its orchestration, if any
EventAfter(kind, outcome, opId, uid) ==
    IF outcome = "failed"
        THEN EventsResponse(opId, "ERROR", OrchestrationError, uid)
    ELSE IF outcome = "ok" /\ kind \in {"handler", "installer", "subsets"}
        THEN EventsResponse(opId, "INFO", Nil, uid)
    ELSE NoEvent

\* a goroutine runs its orchestration up to the push of its event, or to
\* its end when it pushes none
TaskRun(t, outcome) ==
    /\ t \in TaskIds
    /\ tasks[t].pc = "run"
    /\ outcome \in Outcomes(tasks[t].kind)
    /\ LET ev == EventAfter(tasks[t].kind, outcome, tasks[t].OperationId, t) IN
       tasks' = [tasks EXCEPT ![t].ev = ev,
                              ![t].pc = IF ev = NoEvent THEN "done" ELSE "send"]
    /\ UNCHANGED <<eventChan, stream, requests, responses, entered, delivered>>
    /\ UNCHANGED <<engine, split, session, install>>

\* variant: the send does not wait for room in the channel
TaskSendUnguarded(t) ==
    /\ t \in TaskIds
    /\ tasks[t].pc = "send"
    /\ eventChan' = Append(eventChan, tasks[t].ev)
    /\ entered' = Append(entered, tasks[t].ev)
    /\ tasks' = [tasks EXCEPT ![t].pc = "done"]
    /\ responses' = IF tasks[t].kind = "handler"
                    THEN Append(responses,
                                Response(tasks[t].req, tasks[t].OperationId,
                                         tasks[t].ev.Details))
                    ELSE responses
    /\ UNCHANGED <<stream, requests, delivered>>
    /\ UNCHANGED <<engine, split, session, install>>

\* iClient.eventChan <- event: blocks while the channel is full; the handler
\* of a synchronous operation returns after it
TaskSend(t) ==
    /\ t \in TaskIds
    /\ tasks[t].pc = "send"
    /\ Len(eventChan) < EventChanCap
    /\ eventChan' = Append(eventChan, tasks[t].ev)
    /\ entered' = Append(entered, tasks[t].ev)
    /\ tasks' = [tasks EXCEPT ![t].pc = "done"]
    /\ responses' = IF tasks[t].kind = "handler"
                    THEN Append(responses,
                                Response(tasks[t].req, tasks[t].OperationId,
                                         tasks[t].ev.Details))
                    ELSE responses
    /\ UNCHANGED <<stream, requests, delivered>>
    /\ UNCHANGED <<engine, split, session, install>>

\* a consumer calls StreamEvents
StreamEvents ==
    /\ stream.pc \in {"none", "returned"}
    /\ stream.calls < MaxStreams
    /\ stream' = [pc |-> "select", cancelled |-> FALSE, calls |-> stream.calls + 1]
    /\ UNCHANGED <<eventChan, tasks, requests, responses, entered, delivered>>
    /\ UNCHANGED <<engine, split, session, install>>

StreamLive == stream.pc \in {"select", "sleep"}

\* the consumer cancels the stream of the call in progress, or disconnects
Cancel ==
    /\ StreamLive
    /\ ~stream.cancelled
    /\ stream' = [stream EXCEPT !.cancelled = TRUE]
    /\ UNCHANGED <<eventChan, tasks, requests, responses, entered, delivered>>
    /\ UNCHANGED <<engine, split, session, install>>

\* stream.Send(event): fails once the stream is cancelled or disconnected
SendResults == {~stream.cancelled}

\* variant: the event of a failed send is dropped
StreamSelectDrops ==
    /\ stream.pc = "select"
    /\ IF eventChan = <<>>
       THEN /\ stream' = [stream EXCEPT !.pc = "sleep"]
            /\ UNCHANGED <<eventChan, tasks, delivered>>
       ELSE /\ eventChan' = Tail(eventChan)
            /\ \E ok \in SendResults :
                 IF ok
                 THEN /\ delivered' = Append(delivered, Head(eventChan))
                      /\ stream' = [stream EXCEPT !.pc = "sleep"]
                      /\ UNCHANGED tasks
                 ELSE /\ stream' = [stream EXCEPT !.pc = "returned"]
                      /\ UNCHANGED <<tasks, delivered>>
    /\ UNCHANGED <<requests, responses, entered>>
    /\ UNCHANGED <<engine, split, session, install>>

\* variant: the receive takes the newest event of the channel
StreamSelectNewest ==
    /\ stream.pc = "select"
    /\ IF eventChan = <<>>
       THEN /\ stream' = [stream EXCEPT !.pc = "sleep"]
            /\ UNCHANGED <<eventChan, tasks, delivered>>
       ELSE /\ eventChan' = SubSeq(eventChan, 1, Len(eventChan) - 1)
            /\ \E ok \in SendResults :
                 IF ok
                 THEN /\ delivered' = Append(delivered, eventChan[Len(eventChan)])
                      /\ stream' = [stream EXCEPT !.pc = "sleep"]
                      /\ UNCHANGED tasks
                 ELSE /\ tasks' = Append(tasks, Task(0, eventChan[Len(eventChan)].OperationId,
                                                     "requeue", "send", eventChan[Len(eventChan)]))
                      /\ stream' = [stream EXCEPT !.pc = "returned"]
                      /\ UNCHANGED delivered
    /\ UNCHANGED <<requests, responses, entered>>
    /\ UNCHANGED <<engine, split, session, install>>

\* StreamEvents: the select of one iteration: an event is received and sent
\* to the consumer; a failed send starts the goroutine that puts the event
\* back and ends the call; with no event the default case is taken
StreamSelect ==
    /\ stream.pc = "select"
    /\ IF eventChan = <<>>
       THEN /\ stream' = [stream EXCEPT !.pc = "sleep"]
            /\ UNCHANGED <<eventChan, tasks, delivered>>
       ELSE /\ eventChan' = Tail(eventChan)
            /\ \E ok \in SendResults :
                 IF ok
                 THEN /\ delivered' = Append(delivered, Head(eventChan))
                      /\ stream' = [stream EXCEPT !.pc = "sleep"]
                      /\ UNCHANGED tasks
                 ELSE /\ tasks' = Append(tasks, Task(0, Head(eventChan).OperationId,
                                                     "requeue", "send", Head(eventChan)))
                      /\ stream' = [stream EXCEPT !.pc = "returned"]
                      /\ UNCHANGED delivered
    /\ UNCHANGED <<requests, responses, entered>>
    /\ UNCHANGED <<engine, split, session, install>>

\* StreamEvents: time.Sleep(500 * time.Millisecond), then the next iteration
StreamSleep ==
    /\ stream.pc = "sleep"
    /\ stream' = [stream EXCEPT !.pc = "select"]
    /\ UNCHANGED <<eventChan, tasks, requests, responses, entered, delivered>>
    /\ UNCHANGED <<engine, split, session, install>>

\* the session right after CreateMeshInstance
InitEvents ==
    /\ EngineIdle
    /\ split = NoSplit
    /\ install = NoInstall
    /\ eventChan = <<>>
    /\ tasks = <<>>
    /\ stream = NoStream
    /\ requests = <<>>
    /\ responses = <<>>
    /\ entered = <<>>
    /\ delivered = <<>>
    /\ session = NoSession

NextEvents ==
    \/ \E arReq \in Requests : ApplyOperation(arReq)
    \/ \E t \in TaskIds, outcome \in {"ok", "failed", "noManifest"} : TaskRun(t, outcome)
    \/ \E t \in TaskIds : TaskSend(t)
    \/ StreamEvents
    \/ Cancel
    \/ StreamSelect
    \/ StreamSleep

SpecEvents == InitEvents /\ [][NextEvents]_vars

\* the goroutines the model can start
MaxTasks == 2 * MaxRequests + MaxStreams

\* the Go scheduler runs every goroutine that can take a step: the
\* goroutines of ApplyOperation and the loop of StreamEvents; the calls of
\* the clients (ApplyOperation, StreamEvents, Cancel) are not forced
Scheduling ==
    /\ \A t \in 1..MaxTasks :
          /\ WF_vars(\E outcome \in {"ok", "failed", "noManifest"} : TaskRun(t, outcome))
          /\ WF_vars(TaskSend(t))
    /\ WF_vars(StreamSelect)
    /\ WF_vars(StreamSleep)

SpecEventsFair == SpecEvents /\ Scheduling

\* the session after a hundred events nobody has consumed: the channel is full
InitBacklog ==
    /\ EngineIdle
    /\ split = NoSplit
    /\ install = NoInstall
    /\ eventChan = [i \in 1..EventChanCap |-> OldEvent]
    /\ tasks = <<>>
    /\ stream = NoStream
    /\ requests = <<>>
    /\ responses = <<>>
    /\ entered = eventChan
    /\ delivered = <<>>
    /\ session = NoSession

SpecBacklog == InitBacklog /\ [][NextEvents]_vars /\ Scheduling

(***************************************************************************)
(* CreateMeshInstance called again on the same Client                      *)
(***************************************************************************)
\* CreateMeshInstance calls after the first
MaxInstances == 1

\* CreateMeshInstance on a Client that is in use: when newClient succeeds
\* the field eventChan is set to a new channel; the channel it held stays
\* as it is, with the events on it
CreateMeshInstance(ok) ==
    /\ session.calls < MaxInstances
    /\ IF ok
       THEN /\ eventChan' = <<>>
            /\ session' = [calls |-> session.calls + 1,
                           replaced |-> session.replaced \o eventChan,
                           mark |-> Len(tasks),
                           streamMark |-> IF StreamLive THEN stream.calls ELSE 0]
       ELSE /\ session' = [session EXCEPT !.calls = @ + 1]
            /\ UNCHANGED eventChan
    /\ UNCHANGED <<tasks, stream, requests, responses, entered, delivered>>
    /\ UNCHANGED <<engine, split, install>>

\* iClient.eventChan <- event by a goroutine that was running when the field
\* was written: the write is not synchronised with its read of the field,
\* so the send can go to the replaced channel
TaskSendStale(t) ==
    /\ t \in TaskIds
    /\ t <= session.mark
    /\ tasks[t].pc = "send"
    /\ Len(session.replaced) < EventChanCap
    /\ session' = [session EXCEPT !.replaced = Append(@, tasks[t].ev)]
    /\ tasks' = [tasks EXCEPT ![t].pc = "done"]
    /\ responses' = IF tasks[t].kind = "handler"
                    THEN Append(responses,
                                Response(tasks[t].req, tasks[t].OperationId,
                                         tasks[t].ev.Details))
                    ELSE responses
    /\ UNCHANGED <<eventChan, stream, requests, entered, delivered>>
    /\ UNCHANGED <<engine, split, install>>

\* the select of a StreamEvents call that was running when the field was
\* written: for the same reason it can receive from the replaced channel
StreamSelectStale ==
    /\ stream.pc = "select"
    /\ stream.calls = session.streamMark
    /\ session.replaced # <<>>
    /\ session' = [session EXCEPT !.replaced = Tail(@)]
    /\ \E ok \in SendResults :
         IF ok
         THEN /\ delivered' = Append(delivered, Head(session.replaced))
              /\ stream' = [stream EXCEPT !.pc = "sleep"]
              /\ UNCHANGED tasks
         ELSE /\ tasks' = Append(tasks, Task(0, Head(session.replaced).OperationId,
                                             "requeue", "send", Head(session.replaced)))
              /\ stream' = [stream EXCEPT !.pc = "returned"]
              /\ UNCHANGED delivered
    /\ UNCHANGED <<eventChan, requests, responses, entered>>
    /\ UNCHANGED <<engine, split, install>>

NextReconnect ==
    \/ NextEvents
    \/ \E ok \in BOOLEAN : CreateMeshInstance(ok)
    \/ \E t \in TaskIds : TaskSendStale(t)
    \/ StreamSelectStale

SpecReconnect == InitEvents /\ [][NextReconnect]_vars /\ Scheduling

(***************************************************************************)
(* Properties of the event notifier                                        *)
(***************************************************************************)
\* the goroutines ApplyOperation started for request req
TasksOfRequest(req) == {t \in TaskIds : tasks[t].req = req}

Asynchronous(req) == requests[req].OpName # "configureEnvoyFilter"

\* the events made on behalf of request req
EventsOfRequest(req) == {t \in TasksOfRequest(req) : tasks[t].ev # NoEvent}

\* C14: an asynchronous request is acknowledged with its operation id at
\* once, and once its background work has ended exactly one terminal event
\* has been pushed for it, carrying its operation id.
OneTerminalEventPerRequest ==
    \A req \in 1..Len(requests) :
        Asynchronous(req) =>
            /\ \E i \in 1..Len(responses) :
                   responses[i] = Response(req, requests[req].OperationId, Nil)
            /\ (\A t \in TasksOfRequest(req) : tasks[t].pc = "done") =>
                   /\ Cardinality(EventsOfRequest(req)) = 1
                   /\ \A t \in EventsOfRequest(req) :
                          tasks[t].ev.OperationId = requests[req].OperationId

\* the number of positions of the sequence q that hold the event numbered u
Count(q, u) == Cardinality({i \in 1..Len(q) : q[i].uid = u})

\* the goroutines that are about to put the event numbered u on the channel
Holding(u) == {t \in TaskIds : tasks[t].pc = "send" /\ tasks[t].ev.uid = u}

\* the goroutines started to put the event numbered u back
Requeues(u) == {t \in TaskIds : tasks[t].kind = "requeue" /\ tasks[t].ev.uid = u}

Delivered(u) == Count(delivered, u) > 0

\* the event numbered u has been made by the goroutine numbered u
Made(u) == u \in TaskIds /\ tasks[u].kind # "requeue" /\ tasks[u].ev # NoEvent

\* the StreamEvents calls that have returned
ReturnedCalls == IF StreamLive THEN stream.calls - 1 ELSE stream.calls

\* C16: an event whose send failed is put back on the channel exactly once
\* by a goroutine of its own, and StreamEvents returns: every event made is
\* at any time in exactly one place (a goroutine about to send it, the
\* channel, or delivered), it has entered the channel once plus once per
\* finished put-back, and every returned StreamEvents call has started one
\* put-back goroutine; a consumer that subscribes afterwards and stays
\* connected eventually receives the event.
EventRedelivery ==
    /\ [](\A u \in TaskIds :
            Made(u) =>
                /\ Count(eventChan, u) + Cardinality(Holding(u)) + Count(delivered, u) = 1
                /\ Count(entered, u) =
                       Cardinality({t \in Requeues(u) \cup {u} : tasks[t].pc = "done"}))
    /\ [](Cardinality({t \in TaskIds : tasks[t].kind = "requeue"}) = ReturnedCalls)
    /\ \A u \in 1..(2 * MaxRequests) :
          (Requeues(u) # {} /\ ~Delivered(u) /\ StreamLive /\ ~stream.cancelled)
              ~> (Delivered(u) \/ stream.cancelled)

\* an event was put back after a failed send and a later consumer received it
EventRedeliveryWitness ==
    \E u \in TaskIds :
        /\ Made(u)
        /\ \E t \in Requeues(u) : tasks[t].pc = "done"
        /\ Delivered(u)
        /\ stream.calls = 2

\* C17: once the consumer has cancelled, the StreamEvents call returns.
CancelledStreamReturns == stream.cancelled ~> (stream.pc = "returned")

\* the goroutine numbered t is at "iClient.eventChan <- event"
AtSend(t) == IF t \in TaskIds THEN tasks[t].pc = "send" ELSE FALSE

\* the goroutine numbered t has put its event on the channel
HasSent(t) == IF t \in TaskIds THEN tasks[t].pc = "done" ELSE FALSE

\* C18: every push of an event by ApplyOperation or one of its goroutines
\* completes.
EveryPushCompletes ==
    \A t \in 1..MaxTasks :
        AtSend(t) ~> HasSent(t)

\* no send has failed so far
NoSendFailure == \A t \in TaskIds : tasks[t].kind # "requeue"

\* C19: while no send has failed, the consumer has received the events in
\* the order they entered the channel, each once, none skipped (what has
\* entered is what has been delivered followed by what the channel holds),
\* and one iteration of the loop takes at most one event.
FifoExactlyOnce ==
    /\ [](NoSendFailure => entered = delivered \o eventChan)
    /\ [][/\ Len(delivered') <= Len(delivered) + 1
          /\ Len(eventChan') >= Len(eventChan) - 1]_vars

\* two events were pushed and delivered in that order
FifoExactlyOnceWitness ==
    /\ NoSendFailure
    /\ Len(delivered) = 2
    /\ delivered = entered
    /\ delivered[1] # delivered[2]


BackgroundTasks(req) == {t \in TasksOfRequest(req) : tasks[t].kind # "handler"}

\* C28: no request has more than one background task, and no request has
\* more than one event made for it.
OneBackgroundTaskPerRequest ==
    \A req \in 1..Len(requests) :
        /\ Cardinality(BackgroundTasks(req)) <= 1
        /\ Cardinality(EventsOfRequest(req)) <= 1

\* the step is an ApplyOperation call that refuses its request
Refusing == Cardinality(Rejections') > Cardinality(Rejections)

\* C30: a nil request, a request for an operation supportedOps does not
\* have, and a custom operation with an empty body are answered with an
\* error and no response, and the refusing call starts no goroutine, pushes
\* no event and accepts nothing: every accepted request, every goroutine
\* that is not a put-back and every event belongs to a request that passed
\* the three checks.
ValidationHasNoSideEffect ==
    /\ [](/\ \A i \in Rejections : responses[i].err # Nil /\ responses[i].OperationId = 0
          /\ \A req \in 1..Len(requests) :
                /\ requests[req].OpName \in OpNames
                /\ ~(requests[req].OpName = "customOpCommand" /\ requests[req].CustomBody = "")
                /\ Cardinality(TasksOfRequest(req)) =
                       Len(TasksOf(req, requests[req].OperationId, requests[req].OpName))
          /\ \A t \in TaskIds : tasks[t].kind # "requeue" => tasks[t].req \in 1..Len(requests)
          /\ \A i \in 1..Len(entered) :
                \E req \in 1..Len(requests) : entered[i].OperationId = requests[req].OperationId)
    /\ [][Refusing => UNCHANGED <<requests, tasks, eventChan, entered, delivered, stream, engine>>]_vars

\* a custom operation with an empty body has been refused and nothing else
\* has happened
ValidationHasNoSideEffectWitness ==
    /\ \E i \in Rejections : responses[i].err = <<"yaml body is empty">>
    /\ requests = <<>>
    /\ tasks = <<>>
    /\ eventChan = <<>>

\* the event numbered u has been pushed, or its goroutine is about to push it
Pushed(u) == IF u \in TaskIds THEN Made(u) ELSE FALSE

\* a consumer is polling and has not cancelled
Polling == StreamLive /\ ~stream.cancelled

\* C29: an event that has been pushed or is about to be pushed is received
\* by a consumer that keeps polling, also when CreateMeshInstance is called
\* again before the poll.
EventsSurviveReconnect ==
    \A u \in 1..MaxTasks :
        (Pushed(u) /\ ~Delivered(u) /\ Polling) ~> (Delivered(u) \/ ~Polling)

(***************************************************************************)
(* Installers                                                              *)
(***************************************************************************)
\* The installers run in the goroutine of the engine: they call
\* applyConfigChange, getResource and updateResource one after the other.
\* install.at is the position of the installer between two calls, and
\* install.trail the API calls of the calls that have returned.

\* what the server refuses during one phase of an installer
InstallPolicies ==
    { [denied |-> d, mna |-> FALSE] :
        d \in { {}, {"create"}, {"get"}, {"delete"}, {"create", "update"} } }
    \cup
    { [denied |-> {"create"}, mna |-> TRUE] }

\* the error of a manifest or template that could not be obtained
FetchErr == <<"unable to fetch the manifest">>

CRDDoc(n) == Unstructured(ApiExtensionsV1beta1, KindCRD, n, "", 0)
MeshDoc(n) == Unstructured(V1, KindConfigMap, n, "own", 0)

\* getCRDsYAML: the CRD files, one document each
CRDsYAML == << <<Obj(CRDDoc("crd-a"))>>, <<Obj(CRDDoc("crd-b"))>> >>

\* getLatestIstioYAML: the mesh manifest
LatestIstioYAML == <<Obj(MeshDoc("cfg")), Obj(MeshDoc("mesh"))>>

SampleNamespaces == {"prod"}

GatewayDoc == Unstructured(NetworkingV1alpha3, KindGateway, "gw", "", 0)

\* the application manifest and the gateway manifest of a sample application
AppYAML == <<Obj(DeploymentDoc)>>
GatewayYAML == <<Obj(GatewayDoc)>>

\* executeHipsterShopInstall: Sprintf("%s\n---\n%s", kubernetesManifestsContent,
\* istioManifestsContent)
HipsterShopYAML == AppYAML \o GatewayYAML

\* namespace.yml, executed for a namespace
NamespaceYAML(ns) == <<Obj(Unstructured(V1, KindNamespace, ns, "", 0))>>

\* labelNamespaceForAutoInjection: ns with only its name set, and res
NamespaceObject(ns) == [NoObject EXCEPT !.name = ns]
NamespacesRes == [Group |-> EmptyStr, Version |-> V1, Resource |-> ResNamespaces]

\* ns.SetLabels(map[string]string{"istio-injection": "enabled"})
SetLabels(d) == [d EXCEPT !.labels = "istio-injection=enabled"]

\* strings.HasSuffix(err.Error(), "not found")
HasSuffixNotFound(e) == e # Nil /\ e[Len(e)] = NotFoundMsg

\* one entry of the trail: an API call, or a mark of the installer
Mark(phase, what, ok) ==
    [phase |-> phase, n |-> install.crd, doc |-> 0, verb |-> what,
     resource |-> EmptyStr, name |-> "", ok |-> ok]

TrailOf(l, phase) ==
    [i \in 1..Len(l) |->
        [phase |-> phase, n |-> install.crd, doc |-> l[i].doc, verb |-> l[i].verb,
         resource |-> l[i].res.Resource, name |-> l[i].name,
         ok |-> (l[i].err = Nil)]]

\* the trail with the API calls made since the installer moved last
FullTrail == install.trail \o TrailOf(log, install.phase)

\* the installer is between two calls
Between == pc \in {"idle", "ins_ret"} /\ stack = <<>>

\* the installer moves on without a call
Stay ==
    /\ pc' = "idle"
    /\ log' = <<>>
    /\ UNCHANGED <<cluster, budget, manifest, namespace, delete, isCustomOp,
                   yamls, idx, item, data, res, trackRetry, updErr, data1, arg,
                   err, stack, result, opsDone, reconciled, snap, prev>>

\* the installer calls getResource or updateResource itself
Direct(callee, d, r, a) ==
    /\ pc' = callee
    /\ stack' = <<"ins_ret">>
    /\ data' = d
    /\ res' = r
    /\ arg' = a
    /\ log' = <<>>
    /\ UNCHANGED <<cluster, budget, manifest, namespace, delete, isCustomOp,
                   yamls, idx, item, trackRetry, updErr, data1, err, result,
                   opsDone, reconciled, snap, prev>>

\* executeInstall returns e; on uninstall the deferred function runs next
Leave(e) ==
    [install EXCEPT !.err = e,
                    !.at = IF install.deleteOp THEN "applyIstioCRDs" ELSE "done"]

\* applyIstioCRDs returns e: executeInstall returns it when installing, goes
\* on when it is nil, and only logs it in the deferred function
AfterCRDs(e) ==
    IF install.deleteOp THEN [install EXCEPT !.at = "done"]
    ELSE IF e # Nil THEN [install EXCEPT !.at = "done", !.err = e]
    ELSE [install EXCEPT !.at = "getLatestIstioYAML"]

\* variant: the CRDs are left to the end on install too
ExecuteInstallCRDsLast(del) ==
    /\ pc = "idle"
    /\ install.op = "none"
    /\ install' = [install EXCEPT !.op = "executeInstall", !.deleteOp = del,
                                  !.namespace = "",
                                  !.at = "getLatestIstioYAML"]
    /\ UNCHANGED <<engine, split, events>>

\* executeInstall: arReq.Namespace = "" and the branch on arReq.DeleteOp
ExecuteInstall(del) ==
    /\ pc = "idle"
    /\ install.op = "none"
    /\ install' = [install EXCEPT !.op = "executeInstall", !.deleteOp = del,
                                  !.namespace = "",
                                  !.at = IF del THEN "getLatestIstioYAML"
                                         ELSE "applyIstioCRDs"]
    /\ UNCHANGED <<engine, split, events>>

\* applyIstioCRDs: getCRDsYAML
ApplyIstioCRDs ==
    /\ install.at = "applyIstioCRDs"
    /\ Between
    /\ \E fetched \in BOOLEAN, pol \in InstallPolicies :
        /\ policy' = pol
        /\ Stay
        /\ LET t == FullTrail
               i == [install EXCEPT !.phase = "crd", !.crd = 1, !.trail = t]
           IN  install' =
                 IF fetched THEN [i EXCEPT !.at = "crd_loop"]
                 ELSE [AfterCRDs(FetchErr) EXCEPT
                          !.phase = "crd", !.crd = 0,
                          !.trail = Append(t, [Mark("crd", "fetch", FALSE) EXCEPT !.n = 0])]
    /\ UNCHANGED <<split, events>>

\* applyIstioCRDs: head of "for _, crdYAML := range crdYAMLs"
ApplyIstioCRDsLoop ==
    /\ install.at = "crd_loop"
    /\ Between
    /\ IF install.crd > Len(CRDsYAML)
       THEN /\ Stay
            /\ UNCHANGED policy
            /\ install' = [AfterCRDs(Nil) EXCEPT !.trail = FullTrail]
       ELSE /\ EnterApplyConfigChange(CRDsYAML[install.crd], "", install.deleteOp,
                                      FALSE, policy)
            /\ install' = [install EXCEPT
                              !.at = "crd_ret",
                              !.trail = Append(FullTrail, Mark("crd", "enter", TRUE))]
    /\ UNCHANGED <<split, events>>

\* applyIstioCRDs: applyConfigChange has returned
ApplyIstioCRDsRet ==
    /\ install.at = "crd_ret"
    /\ pc = "idle"
    /\ Stay
    /\ UNCHANGED policy
    /\ LET t == Append(FullTrail, Mark("crd", "return", result = Nil)) IN
       install' =
         IF result # Nil
         THEN [AfterCRDs(result) EXCEPT !.trail = t]
         ELSE [install EXCEPT !.crd = install.crd + 1, !.at = "crd_loop", !.trail = t]
    /\ UNCHANGED <<split, events>>

\* executeInstall: getLatestIstioYAML and the applyConfigChange of its result
GetLatestIstioYAML ==
    /\ install.at = "getLatestIstioYAML"
    /\ Between
    /\ \E fetched \in BOOLEAN, pol \in InstallPolicies :
        LET i == [install EXCEPT !.phase = "mesh", !.crd = 0] IN
        IF fetched
        THEN /\ EnterApplyConfigChange(LatestIstioYAML, install.namespace,
                                       install.deleteOp, FALSE, pol)
             /\ install' = [i EXCEPT
                               !.at = "mesh_ret",
                               !.trail = Append(FullTrail,
                                   [Mark("mesh", "enter", TRUE) EXCEPT !.n = 0])]
        ELSE /\ Stay
             /\ policy' = pol
             /\ install' = [Leave(FetchErr) EXCEPT
                               !.phase = "mesh", !.crd = 0,
                               !.trail = Append(FullTrail,
                                   [Mark("mesh", "fetch", FALSE) EXCEPT !.n = 0])]
    /\ UNCHANGED <<split, events>>

\* executeInstall: applyConfigChange has returned; os.Setenv and the return
ExecuteInstallRet ==
    /\ install.at = "mesh_ret"
    /\ pc = "idle"
    /\ Stay
    /\ UNCHANGED policy
    /\ install' = [Leave(result) EXCEPT
                      !.trail = Append(FullTrail, Mark("mesh", "return", result = Nil))]
    /\ UNCHANGED <<split, events>>

(***************************************************************************)
(* The sample applications                                                 *)
(***************************************************************************)
SampleOps ==
    {"executeHttpbinInstall", "executeBookInfoInstall", "executeImagehubInstall",
     "executeEmojiVotoInstall", "executeHipsterShopInstall"}

\* a sample installer returns e
Quit(e) == [install EXCEPT !.at = "done", !.err = e]

\* entry of a sample installer: the branch on !arReq.DeleteOp
SampleInstall(op, gateway, del, ns) ==
    /\ pc = "idle"
    /\ install.op = "none"
    /\ install' = [install EXCEPT !.op = op, !.deleteOp = del, !.namespace = ns,
                                  !.gateway = gateway,
                                  !.at = IF del THEN "app" ELSE "label"]
    /\ UNCHANGED <<engine, split, events>>

ExecuteHttpbinInstall(del, ns) == SampleInstall("executeHttpbinInstall", TRUE, del, ns)

ExecuteBookInfoInstall(del, ns) == SampleInstall("executeBookInfoInstall", TRUE, del, ns)

ExecuteImagehubInstall(del, ns) == SampleInstall("executeImagehubInstall", TRUE, del, ns)

ExecuteEmojiVotoInstall(del, ns) == SampleInstall("executeEmojiVotoInstall", TRUE, del, ns)

\* the kubernetes and the istio manifests are applied as one change-set
ExecuteHipsterShopInstall(del, ns) ==
    SampleInstall("executeHipsterShopInstall", FALSE, del, ns)

\* labelNamespaceForAutoInjection: the first getResource
LabelNamespaceForAutoInjection ==
    /\ install.at = "label"
    /\ Between
    /\ \E pol \in InstallPolicies : policy' = pol
    /\ Direct("gr_ns", NamespaceObject(install.namespace), NamespacesRes, arg)
    /\ install' = [install EXCEPT !.phase = "label", !.at = "lab_got",
                                  !.trail = FullTrail]
    /\ UNCHANGED <<split, events>>

\* labelNamespaceForAutoInjection: the first getResource has returned;
\* createNamespace when its error ends with "not found"
LabelGot ==
    /\ install.at = "lab_got"
    /\ pc = "ins_ret"
    /\ IF err = Nil
       THEN /\ Direct("ur_ns", data, res, SetLabels(data1))
            /\ UNCHANGED policy
            /\ install' = [install EXCEPT !.at = "lab_updated", !.trail = FullTrail]
       ELSE IF HasSuffixNotFound(err)
       THEN \E rendered \in BOOLEAN :
              IF rendered
              THEN /\ EnterApplyConfigChange(NamespaceYAML(install.namespace),
                                             install.namespace, FALSE, FALSE, policy)
                   /\ install' = [install EXCEPT
                                     !.phase = "namespace", !.at = "lab_created",
                                     !.trail = Append(FullTrail,
                                                      Mark("namespace", "enter", TRUE))]
              ELSE /\ Stay
                   /\ UNCHANGED policy
                   /\ install' = [Quit(FetchErr) EXCEPT
                                     !.trail = FullTrail \o
                                         <<Mark("namespace", "fetch", FALSE),
                                           Mark("label", "return", FALSE)>>]
       ELSE /\ Stay
            /\ UNCHANGED policy
            /\ install' = [Quit(err) EXCEPT
                              !.trail = Append(FullTrail, Mark("label", "return", FALSE))]
    /\ UNCHANGED <<split, events>>

\* createNamespace has returned; the second getResource
LabelCreated ==
    /\ install.at = "lab_created"
    /\ pc = "idle"
    /\ UNCHANGED policy
    /\ LET t == Append(FullTrail, Mark("namespace", "return", result = Nil)) IN
       IF result # Nil
       THEN /\ Stay
            /\ install' = [Quit(result) EXCEPT
                              !.trail = Append(t, Mark("label", "return", FALSE))]
       ELSE /\ Direct("gr_ns", NamespaceObject(install.namespace), NamespacesRes, arg)
            /\ install' = [install EXCEPT !.phase = "label", !.at = "lab_got2",
                                          !.trail = t]
    /\ UNCHANGED <<split, events>>

\* the second getResource has returned: its object is dropped, and the outer
\* ns, nil since the first getResource failed, is replaced by a new object
LabelGotAgain ==
    /\ install.at = "lab_got2"
    /\ pc = "ins_ret"
    /\ UNCHANGED policy
    /\ IF err # Nil
       THEN /\ Stay
            /\ install' = [Quit(err) EXCEPT
                              !.trail = Append(FullTrail, Mark("label", "return", FALSE))]
       ELSE /\ Direct("ur_ns", data, res, SetLabels(NamespaceObject(install.namespace)))
            /\ install' = [install EXCEPT !.at = "lab_updated", !.trail = FullTrail]
    /\ UNCHANGED <<split, events>>

\* variant: the error of updateResource is dropped
LabelUpdatedIgnoresError ==
    /\ install.at = "lab_updated"
    /\ pc = "ins_ret"
    /\ Stay
    /\ UNCHANGED policy
    /\ install' = [install EXCEPT
                      !.at = "app",
                      !.trail = Append(FullTrail, Mark("label", "return", err = Nil))]
    /\ UNCHANGED <<split, events>>

\* updateResource has returned: labelNamespaceForAutoInjection returns, and
\* the installer returns its error
LabelUpdated ==
    /\ install.at = "lab_updated"
    /\ pc = "ins_ret"
    /\ Stay
    /\ UNCHANGED policy
    /\ install' = [(IF err # Nil THEN Quit(err) ELSE [install EXCEPT !.at = "app"])
                     EXCEPT !.trail = Append(FullTrail, Mark("label", "return", err = Nil))]
    /\ UNCHANGED <<split, events>>

\* the application manifest is fetched and handed to applyConfigChange
GetAppYAML ==
    /\ install.at = "app"
    /\ Between
    /\ \E fetched \in BOOLEAN, pol \in InstallPolicies :
        IF fetched
        THEN /\ EnterApplyConfigChange(
                    IF install.gateway THEN AppYAML ELSE HipsterShopYAML,
                    install.namespace, install.deleteOp, FALSE, pol)
             /\ install' = [install EXCEPT
                               !.phase = "app", !.at = "app_ret",
                               !.trail = Append(FullTrail, Mark("app", "enter", TRUE))]
        ELSE /\ Stay
             /\ policy' = pol
             /\ install' = [Quit(FetchErr) EXCEPT
                               !.phase = "app",
                               !.trail = Append(FullTrail, Mark("app", "fetch", FALSE))]
    /\ UNCHANGED <<split, events>>

\* applyConfigChange of the application manifest has returned
AppRet ==
    /\ install.at = "app_ret"
    /\ pc = "idle"
    /\ Stay
    /\ UNCHANGED policy
    /\ install' = [(IF result = Nil /\ install.gateway
                     THEN [install EXCEPT !.at = "gateway"]
                     ELSE Quit(result))
                     EXCEPT !.trail = Append(FullTrail, Mark("app", "return", result = Nil))]
    /\ UNCHANGED <<split, events>>

\* the gateway manifest is fetched and handed to applyConfigChange
GetGatewayYAML ==
    /\ install.at = "gateway"
    /\ Between
    /\ \E fetched \in BOOLEAN, pol \in InstallPolicies :
        IF fetched
        THEN /\ EnterApplyConfigChange(GatewayYAML, install.namespace,
                                       install.deleteOp, FALSE, pol)
             /\ install' = [install EXCEPT
                               !.phase = "gateway", !.at = "gw_ret",
                               !.trail = Append(FullTrail, Mark("gateway", "enter", TRUE))]
        ELSE /\ Stay
             /\ policy' = pol
             /\ install' = [Quit(FetchErr) EXCEPT
                               !.phase = "gateway",
                               !.trail = Append(FullTrail, Mark("gateway", "fetch", FALSE))]
    /\ UNCHANGED <<split, events>>

\* applyConfigChange of the gateway manifest has returned
GatewayRet ==
    /\ install.at = "gw_ret"
    /\ pc = "idle"
    /\ Stay
    /\ UNCHANGED policy
    /\ install' = [Quit(result) EXCEPT
                      !.trail = Append(FullTrail, Mark("gateway", "return", result = Nil))]
    /\ UNCHANGED <<split, events>>

\* the steps of the engine below applyConfigChange
EngineSteps ==
    \/ ApplyConfigChangeLoop
    \/ ApplyConfigChangeRet
    \/ ApplyRulePayload
    \/ ExecuteRule
    \/ Retry
    \/ ExecuteRuleCreated
    \/ ExecuteRuleGot
    \/ ExecuteRuleUpdated
    \/ ExecuteRuleRetryDeleted
    \/ CreateResourceNs
    \/ CreateResourceCluster
    \/ GetResourceNs
    \/ GetResourceCluster
    \/ UpdateResourceNs
    \/ UpdateResourceCluster
    \/ DeleteResource
    \/ DeleteResourceGot
    \/ DeleteResourceScaled
    \/ DeleteResourceNs
    \/ DeleteResourceCluster

\* the cluster before the installer: empty, or with everything installed
Installed ==
    { Stored(GroupVersionResource(CRDDoc("crd-a")), "", CRDDoc("crd-a")),
      Stored(GroupVersionResource(CRDDoc("crd-b")), "", CRDDoc("crd-b")),
      Stored(GroupVersionResource(MeshDoc("cfg")), "own", MeshDoc("cfg")),
      Stored(GroupVersionResource(MeshDoc("mesh")), "own", MeshDoc("mesh")),
      Stored(NamespacesRes, "", Unstructured(V1, KindNamespace, "prod", "", 0)),
      Stored(GroupVersionResource(DeploymentDoc), "prod", DeploymentDoc),
      Stored(GroupVersionResource(GatewayDoc), "prod", GatewayDoc) }

InitInstall ==
    /\ cluster \in {{}, Installed}
    /\ policy = NoPolicy
    /\ budget = MaxTransient
    /\ manifest = <<>>
    /\ namespace = ""
    /\ delete = FALSE
    /\ isCustomOp = FALSE
    /\ yamls = <<>>
    /\ idx = 0
    /\ item = 0
    /\ data = NoObject
    /\ res = NoRes
    /\ trackRetry = 0
    /\ updErr = Nil
    /\ data1 = NoObject
    /\ arg = NoObject
    /\ err = Nil
    /\ pc = "idle"
    /\ stack = <<>>
    /\ result = Nil
    /\ opsDone = 0
    /\ log = <<>>
    /\ reconciled = <<>>
    /\ snap = {}
    /\ prev = FALSE
    /\ split = NoSplit
    /\ EventsIdle
    /\ install = NoInstall

NextInstall ==
    \/ \E del \in BOOLEAN : ExecuteInstall(del)
    \/ ApplyIstioCRDs
    \/ ApplyIstioCRDsLoop
    \/ ApplyIstioCRDsRet
    \/ GetLatestIstioYAML
    \/ ExecuteInstallRet
    \/ \E del \in BOOLEAN, ns \in SampleNamespaces : ExecuteHttpbinInstall(del, ns)
    \/ \E del \in BOOLEAN, ns \in SampleNamespaces : ExecuteBookInfoInstall(del, ns)
    \/ \E del \in BOOLEAN, ns \in SampleNamespaces : ExecuteImagehubInstall(del, ns)
    \/ \E del \in BOOLEAN, ns \in SampleNamespaces : ExecuteEmojiVotoInstall(del, ns)
    \/ \E del \in BOOLEAN, ns \in SampleNamespaces : ExecuteHipsterShopInstall(del, ns)
    \/ LabelNamespaceForAutoInjection
    \/ LabelGot
    \/ LabelCreated
    \/ LabelGotAgain
    \/ LabelUpdated
    \/ GetAppYAML
    \/ AppRet
    \/ GetGatewayYAML
    \/ GatewayRet
    \/ EngineSteps

SpecInstall == InitInstall /\ [][NextInstall]_vars

(***************************************************************************)
(* Properties of the installers                                            *)
(***************************************************************************)
\* position p of trail t is an API call of phase ph
CallAt(t, p, ph) == t[p].phase = ph /\ t[p].verb \in Verbs

\* position p of trail t is the end of the processing of a manifest of phase
\* ph: its applyConfigChange returned, or the manifest could not be fetched
EndAt(t, p, ph) == t[p].phase = ph /\ t[p].verb \in {"return", "fetch"}

\* C31: in executeInstall, on install every CRD file has been applied, and
\* its applyConfigChange has returned nil, before the first API call of the
\* mesh manifest, and after a CRD failure the error is returned and the mesh
\* manifest has no API call; on uninstall every step of the CRDs comes after
\* the end of the processing of the mesh manifest, with no API call of the
\* mesh manifest after it, and the CRDs are processed by the time
\* executeInstall is done, whether or not the mesh manifest was fetched and
\* removed.
CRDsOrderedInExecuteInstall ==
    install.op = "executeInstall" =>
        LET t == FullTrail IN
        IF ~install.deleteOp
        THEN /\ \A p \in 1..Len(t) :
                    t[p].phase = "mesh" =>
                        \A k \in 1..Len(CRDsYAML) :
                            /\ \E q \in 1..(p - 1) : CallAt(t, q, "crd") /\ t[q].n = k
                            /\ \E q \in 1..(p - 1) :
                                   /\ t[q].phase = "crd" /\ t[q].n = k
                                   /\ t[q].verb = "return" /\ t[q].ok
             /\ (\E p \in 1..Len(t) : EndAt(t, p, "crd") /\ ~t[p].ok) =>
                    /\ install.at = "done"
                    /\ install.err # Nil
                    /\ \A p \in 1..Len(t) : t[p].phase # "mesh"
        ELSE /\ \A p \in 1..Len(t) :
                    t[p].phase = "crd" =>
                        /\ \E q \in 1..(p - 1) : EndAt(t, q, "mesh")
                        /\ \A q \in (p + 1)..Len(t) : t[q].phase # "mesh"
             /\ install.at = "done" => \E p \in 1..Len(t) : t[p].phase = "crd"

\* an install that returned nil: both CRD files and the mesh manifest created
CRDsOrderedInExecuteInstallWitness ==
    /\ install.op = "executeInstall"
    /\ ~install.deleteOp
    /\ install.at = "done"
    /\ install.err = Nil
    /\ \A k \in 1..Len(CRDsYAML) :
          \E p \in 1..Len(install.trail) :
              /\ CallAt(install.trail, p, "crd") /\ install.trail[p].n = k
              /\ install.trail[p].verb = "create" /\ install.trail[p].ok
    /\ \E p \in 1..Len(install.trail) :
          /\ CallAt(install.trail, p, "mesh")
          /\ install.trail[p].verb = "create" /\ install.trail[p].ok

\* an uninstall whose mesh manifest could not be removed, and a CRD deleted
UninstallFailedCRDsDeleted ==
    /\ install.op = "executeInstall"
    /\ install.deleteOp
    /\ install.at = "done"
    /\ install.err # Nil
    /\ \E p \in 1..Len(install.trail) :
          /\ CallAt(install.trail, p, "crd")
          /\ install.trail[p].verb = "delete" /\ install.trail[p].ok

\* position p of trail t is a get, create or update of the namespace ns
NamespaceCallAt(t, p, ns) ==
    /\ t[p].verb \in {"get", "create", "update"}
    /\ t[p].resource = ResNamespaces
    /\ t[p].name = ns

\* C32: in a sample installer that is not deleting, before the first step of
\* the application manifest a get of the target namespace has succeeded, with
\* every step of its creation before that get, and after the get an update of
\* the namespace has succeeded, and after a failure of the labelling the
\* installer is done with an error and no step of a manifest; when deleting,
\* the trail has no labelling step and no get, create or update of the
\* namespace; every step of the gateway manifest comes after the
\* applyConfigChange of the application manifest returned nil, and in the
\* one change-set of Hipster Shop the calls of the kubernetes document come
\* before those of the istio document.
NamespaceLabelledBeforeManifests ==
    install.op \in SampleOps =>
        LET t == FullTrail
            ns == install.namespace
        IN
        /\ ~install.deleteOp =>
              /\ \A p \in 1..Len(t) :
                    t[p].phase \in {"app", "gateway"} =>
                        \E g \in 1..(p - 1), u \in 1..(p - 1) :
                            /\ g < u
                            /\ CallAt(t, g, "label") /\ NamespaceCallAt(t, g, ns)
                            /\ t[g].verb = "get" /\ t[g].ok
                            /\ CallAt(t, u, "label") /\ NamespaceCallAt(t, u, ns)
                            /\ t[u].verb = "update" /\ t[u].ok
                            /\ \A c \in 1..Len(t) : t[c].phase = "namespace" => c < g
              /\ (\E p \in 1..Len(t) : EndAt(t, p, "label") /\ ~t[p].ok) =>
                    /\ install.at = "done"
                    /\ install.err # Nil
                    /\ \A p \in 1..Len(t) : t[p].phase \notin {"app", "gateway"}
        /\ install.deleteOp =>
              \A p \in 1..Len(t) :
                  /\ t[p].phase \notin {"label", "namespace"}
                  /\ ~NamespaceCallAt(t, p, ns)
        /\ \A p \in 1..Len(t) :
              t[p].phase = "gateway" =>
                  /\ \E q \in 1..(p - 1) :
                        t[q].phase = "app" /\ t[q].verb = "return" /\ t[q].ok
                  /\ \A q \in (p + 1)..Len(t) : t[q].phase # "app"
        /\ \A p, q \in 1..Len(t) :
              (CallAt(t, p, "app") /\ CallAt(t, q, "app") /\ t[p].doc < t[q].doc) => p < q

\* a sample application installed on an empty cluster: the namespace was not
\* found, created, fetched and labelled, then both manifests were created
NamespaceLabelledBeforeManifestsWitness ==
    /\ install.op = "executeHttpbinInstall"
    /\ ~install.deleteOp
    /\ install.at = "done"
    /\ install.err = Nil
    /\ \E o \in cluster :
          /\ o.res = NamespacesRes
          /\ o.obj.name = install.namespace
          /\ o.obj.labels = "istio-injection=enabled"
    /\ \E c, u, a, g \in 1..Len(install.trail) :
          LET t == install.trail IN
          /\ c < u /\ u < a /\ a < g
          /\ CallAt(t, c, "namespace") /\ t[c].verb = "create" /\ t[c].ok
          /\ CallAt(t, u, "label") /\ t[u].verb = "update" /\ t[u].ok
          /\ CallAt(t, a, "app") /\ t[a].verb = "create" /\ t[a].ok
          /\ CallAt(t, g, "gateway") /\ t[g].verb = "create" /\ t[g].ok

\* Hipster Shop installed: both documents of its change-set created
HipsterShopInstalled ==
    /\ install.op = "executeHipsterShopInstall"
    /\ ~install.deleteOp
    /\ install.at = "done"
    /\ install.err = Nil
    /\ \E a, b \in 1..Len(install.trail) :
          LET t == install.trail IN
          /\ CallAt(t, a, "app") /\ t[a].doc = 1 /\ t[a].ok
          /\ CallAt(t, b, "app") /\ t[b].doc = 2 /\ t[b].ok

\* a sample application removed: both manifests deleted
SampleRemoved ==
    /\ install.op \in SampleOps
    /\ install.deleteOp
    /\ install.at = "done"
    /\ \E a, g \in 1..Len(install.trail) :
          LET t == install.trail IN
          /\ CallAt(t, a, "app") /\ t[a].verb = "delete" /\ t[a].ok
          /\ CallAt(t, g, "gateway") /\ t[g].verb = "delete" /\ t[g].ok

====
